---- MODULE Spec2Model ----
(***************************************************************************)
(* Model of the configuration store / model manager of                     *)
(* daemon/core/config.py (ConfigurableManager, ModelManager) and of the    *)
(* EMANE network node of daemon/core/emane/nodes.py (EmaneNet).            *)
(*                                                                         *)
(* Python dictionaries are modelled as sequences of <<key, value>> pairs   *)
(* with unique keys, in insertion order.  The option mappings that the     *)
(* store holds are Python objects that the code shares by reference, so    *)
(* they live in a heap (reference -> mapping) and the store holds          *)
(* references.                                                             *)
(***************************************************************************)
EXTENDS Integers, Sequences, FiniteSets, TLC

VARIABLES
    node_configurations, \* ConfigurableManager.node_configurations
    heap,                \* the option mappings (Python dict objects), by reference
    models,              \* ModelManager.models: model name -> model class
    node_models,         \* ModelManager.node_models: node id -> model name
    ret,                 \* outcome of the last call: operation, raised, returned value
    supplied,            \* history: per (node, model), the overrides supplied so far
    got,                 \* history: first get_model_config result since the last write
    nops,                \* history: number of calls made so far
    nemidmap,            \* EmaneNet.nemidmap: interface -> NEM id
    service,             \* session.emane.service is not None
    geo,                 \* per interface: getgeo() of its node's position
    position_alt,        \* per interface: its node's position.alt, << >> if None
    published,           \* events the last call handed to service.publish
    moved,               \* the interfaces the last publish call was given
    dropped,             \* history: interfaces of calls made with no service
    threads,             \* per thread inside set_model_config: its position,
                         \* its argument and its local variables
    start,               \* history: the store the threads started from
    model,               \* EmaneNet.model: the attached radio model instance
    mobility,            \* EmaneNet.mobility: the attached mobility model instance
    attaches,            \* history: radio-role setmodel calls so far (0, 1, many)
    listed,              \* the list the last get_models call returned
    found_netif,         \* the interface the last getnemnetif call returned
    entered,             \* history: the interfaces given a NEM id, in the order
                         \* of their first setnemid
    ifaces,              \* EmaneNet._netif: the attached interfaces, with the
                         \* hook, transport type and calls made on each
    genloc,              \* session.emane.genlocationevents()
    external,            \* the "external" option session.emane.get_config gives
    iter,                \* a call of installnetifs / deinstallnetifs under way
    nem_pos,             \* the tuple the last _nem_position call returned
    answer               \* what the last read of the store returned

mgr_vars == <<node_configurations, heap, models, node_models, supplied,
              got, nops>>

net_vars == <<nemidmap, service, geo, position_alt, published, moved, dropped>>

thread_vars == <<threads, start>>

slot_vars == <<model, mobility, attaches, listed>>

ifc_vars == <<found_netif, entered, ifaces, genloc, external, iter, nem_pos,
              answer>>

vars == <<mgr_vars, ret, net_vars, thread_vars, slot_vars, ifc_vars>>

-----------------------------------------------------------------------------
(* Bounds and input sets *)

\* node ids: 0, which Python treats as false, and a non-zero id
NodeIds == {0, 1}

None == 0          \* Python None, as a reference
NoClass == "None"  \* Python None, as a model class
NoModel == "None"  \* no entry in node_models
Unset == "unset"   \* history: key never supplied

-----------------------------------------------------------------------------
(* dict / OrderedDict *)

KeySet(d) == {d[i][1] : i \in 1..Len(d)}
DictHas(d, k) == k \in KeySet(d)
DictIndex(d, k) == CHOOSE i \in 1..Len(d) : d[i][1] = k
DictGet(d, k) == d[DictIndex(d, k)][2]
DictSet(d, k, v) ==
    IF DictHas(d, k) THEN [d EXCEPT ![DictIndex(d, k)] = <<k, v>>]
    ELSE Append(d, <<k, v>>)
DictPop(d, k) == SelectSeq(d, LAMBDA e : e[1] # k)

\* (mutation of DictUpdate: the overrides replace the mapping)
DictUpdate_replace(d, config) == config

\* for key in config: model_config[key] = config[key]
RECURSIVE DictUpdate(_, _)
DictUpdate(d, config) ==
    IF config = << >> THEN d
    ELSE DictUpdate(DictSet(d, Head(config)[1], Head(config)[2]), Tail(config))

-----------------------------------------------------------------------------
(* Model classes *)

\* RegisterTlvs.WIRELESS / RegisterTlvs.MOBILITY
WIRELESS == "WIRELESS"
MOBILITY == "MOBILITY"
\* a config_type that is neither of the two
UTILITY == "UTILITY"

\* model classes, by class identity
ModelClasses == {"BasicRangeModel", "MobilityModel"}

\* a radio model with two options; a mobility model that declares no option
\* (ConfigurableOptions.options = [])
ClassDef(cls) ==
    CASE cls = "BasicRangeModel" ->
           [name |-> "basic_range", config_type |-> WIRELESS,
            options |-> << <<"range", "275">>, <<"bandwidth", "54">> >>]
      [] cls = "MobilityModel" ->
           [name |-> "mobility", config_type |-> MOBILITY, options |-> << >>]
      [] cls = "RfPipeModel" ->
           [name |-> "rfpipe", config_type |-> WIRELESS,
            options |-> << <<"range", "100">> >>]
      [] cls = "RangeModelB" ->
           [name |-> "basic_range", config_type |-> WIRELESS,
            options |-> << <<"range", "10">> >>]
      [] cls = "UtilityModel" ->
           [name |-> "utility", config_type |-> UTILITY, options |-> << >>]

\* the classes a node is handed by setmodel: a second radio model and a class
\* of another role besides
NodeModelClasses == ModelClasses \cup {"RfPipeModel", "UtilityModel"}

ClassNames == {ClassDef(c).name : c \in ModelClasses}
\* "bogus" is a name no class carries: it can never be registered
ModelNames == ClassNames \cup {"bogus"}

\* ConfigurableOptions.default_values: id -> default, in declaration order
default_values(cls) == ClassDef(cls).options

\* (mutation of ModelsGet: an unknown name falls back to a class)
ModelsGet_fallback(ms, model_name) ==
    IF ms[model_name] = NoClass THEN "MobilityModel" ELSE ms[model_name]

\* self.models.get(model_name)
ModelsGet(ms, model_name) == ms[model_name]

-----------------------------------------------------------------------------
(* Heap *)

Alloc(h) ==
    CHOOSE r \in 1..(Cardinality(DOMAIN h) + 1) :
        r \notin DOMAIN h /\ \A s \in 1..(r - 1) : s \in DOMAIN h

HeapPut(h, r, d) == [x \in DOMAIN h \cup {r} |-> IF x = r THEN d ELSE h[x]]

\* bool(config) is False for None and for an empty mapping
Falsy(h, config) == config = None \/ h[config] = << >>

\* the option mappings the store refers to
StoreRefs(nc) ==
    UNION {{nc[i][2][j][2] : j \in 1..Len(nc[i][2])} : i \in 1..Len(nc)}

RECURSIVE FlatRefs(_)
\* the references of the store, in the order of its entries
FlatRefs(nc) ==
    IF nc = << >> THEN << >>
    ELSE [j \in 1..Len(nc[1][2]) |-> nc[1][2][j][2]] \o FlatRefs(Tail(nc))

RECURSIVE Distinct(_, _)
\* the distinct elements of a sequence, in the order of their first occurrence
Distinct(seq, seen) ==
    IF seq = << >> THEN << >>
    ELSE IF Head(seq) \in seen THEN Distinct(Tail(seq), seen)
    ELSE <<Head(seq)>> \o Distinct(Tail(seq), seen \cup {Head(seq)})

Rank(order, r) ==
    IF r = None THEN None ELSE CHOOSE k \in 1..Len(order) : order[k] = r

Renumber(nc, h, held, order) ==
    [nc |-> [i \in 1..Len(nc) |->
                <<nc[i][1], [j \in 1..Len(nc[i][2]) |->
                    <<nc[i][2][j][1], Rank(order, nc[i][2][j][2])>>]>>],
     heap |-> [k \in 1..Len(order) |-> h[order[k]]],
     held |-> Rank(order, held)]

\* Objects that neither the store nor the caller refers to are collected, and
\* the live ones are numbered in the order the store (then the caller) refers
\* to them: a reference only carries identity, not a number.
Normal(nc, h, held) ==
    Renumber(nc, h, held,
             Distinct(FlatRefs(nc) \o (IF held = None THEN << >> ELSE <<held>>),
                      {}))

-----------------------------------------------------------------------------
(* ConfigurableManager *)

default_node == -1
default_type == "-1"

\* config_reset(node_id): `given` is FALSE when node_id is omitted (None)
config_reset(nc, given, node_id) ==
    IF ~given \/ node_id = 0 THEN << >>          \* `if not node_id`
    ELSE IF DictHas(nc, node_id) THEN DictPop(nc, node_id)
    ELSE nc

\* (mutation of set_configs: a configuration already stored for the type is
\* kept, as node_configs.setdefault(config_type, config) would)
set_configs_setdefault(nc, config, node_id, config_type) ==
    IF DictHas(nc, node_id) /\ DictHas(DictGet(nc, node_id), config_type)
    THEN nc
    ELSE LET nc1 == IF DictHas(nc, node_id) THEN nc
                    ELSE Append(nc, <<node_id, << >> >>)
         IN  DictSet(nc1, node_id,
                     DictSet(DictGet(nc1, node_id), config_type, config))

\* set_configs: node_configs = setdefault(node_id, OrderedDict());
\*              node_configs[config_type] = config
set_configs(nc, config, node_id, config_type) ==
    LET nc1 == IF DictHas(nc, node_id) THEN nc
               ELSE Append(nc, <<node_id, << >> >>)
        node_configs == DictGet(nc1, node_id)
    IN  DictSet(nc1, node_id, DictSet(node_configs, config_type, config))

\* get_configs: the stored reference, or None
get_configs(nc, node_id, config_type) ==
    IF ~DictHas(nc, node_id) THEN None
    ELSE LET node_configs == DictGet(nc, node_id)
         IN  IF node_configs = << >> THEN None       \* `if node_configs:`
             ELSE IF DictHas(node_configs, config_type)
                  THEN DictGet(node_configs, config_type)
                  ELSE None

\* set_config: both levels are created by setdefault, then the key is set
set_config(st, _id, value, node_id, config_type) ==
    LET config == get_configs(st.nc, node_id, config_type)
        present == DictHas(st.nc, node_id)
                   /\ DictHas(DictGet(st.nc, node_id), config_type)
        r == IF present THEN config ELSE Alloc(st.heap)
        h1 == IF present THEN st.heap ELSE HeapPut(st.heap, r, << >>)
    IN  [nc |-> IF present THEN st.nc
                ELSE set_configs(st.nc, r, node_id, config_type),
         heap |-> [h1 EXCEPT ![r] = DictSet(h1[r], _id, value)]]

\* (mutation of nodes: every scope of the store is listed, the default scope
\* as well)
nodes_all(nc) == [i \in 1..Len(nc) |-> nc[i][1]]

\* nodes: [x for x in self.node_configurations if x != self._default_node]
nodes(nc) ==
    SelectSeq([i \in 1..Len(nc) |-> nc[i][1]], LAMBDA x : x # default_node)

\* get_config: result = default; if node_type_configs: result =
\* node_type_configs.get(_id, default)
get_config(nc, h, _id, node_id, config_type, default) ==
    LET node_type_configs == get_configs(nc, node_id, config_type) IN
    IF Falsy(h, node_type_configs) THEN default
    ELSE IF DictHas(h[node_type_configs], _id)
         THEN DictGet(h[node_type_configs], _id)
         ELSE default

\* get_all_configs: self.node_configurations.get(node_id); << >> for None,
\* <<d>> for the mapping of the scope, its references resolved
get_all_configs(nc, h, node_id) ==
    IF ~DictHas(nc, node_id) THEN << >>
    ELSE LET d == DictGet(nc, node_id)
         IN  <<[j \in 1..Len(d) |-> <<d[j][1], h[d[j][2]]>>]>>

\* what a read returns: a string (get_config) or a list (the others)
NoAnswer == [text |-> "", list |-> << >>]

-----------------------------------------------------------------------------
(* ModelManager *)

\* (mutation of get_model_config: the defaults are stored on every call, the
\* configuration found is still returned)
get_model_config_restore(st, ms, node_id, model_name) ==
    LET model_class == ModelsGet(ms, model_name) IN
    IF model_class = NoClass
    THEN [raised |-> TRUE, nc |-> st.nc, heap |-> st.heap, value |-> None]
    ELSE LET config == get_configs(st.nc, node_id, model_name)
             r == Alloc(st.heap)
         IN  [raised |-> FALSE,
              nc |-> set_configs(st.nc, r, node_id, model_name),
              heap |-> HeapPut(st.heap, r, default_values(model_class)),
              value |-> IF Falsy(st.heap, config) THEN r ELSE config]

\* get_model_config: [raised, nc, heap, value]
get_model_config(st, ms, node_id, model_name) ==
    LET model_class == ModelsGet(ms, model_name) IN
    IF model_class = NoClass
    THEN [raised |-> TRUE, nc |-> st.nc, heap |-> st.heap, value |-> None]
    ELSE LET config == get_configs(st.nc, node_id, model_name) IN
         IF Falsy(st.heap, config)
         THEN LET r == Alloc(st.heap) IN
              [raised |-> FALSE,
               nc |-> set_configs(st.nc, r, node_id, model_name),
               heap |-> HeapPut(st.heap, r, default_values(model_class)),
               value |-> r]
         ELSE [raised |-> FALSE, nc |-> st.nc, heap |-> st.heap,
               value |-> config]

\* (mutation of set_model_config: the startup model is recorded before the
\* model name is looked up)
set_model_config_early(st, ms, node_id, model_name, config) ==
    LET model_class == ModelsGet(ms, model_name) IN
    IF model_class = NoClass
    THEN [raised |-> TRUE, nc |-> st.nc, heap |-> st.heap,
          nm |-> [st.nm EXCEPT ![node_id] = model_name]]
    ELSE LET g == get_model_config(st, ms, node_id, model_name)
             model_config == g.value
             h2 == [g.heap EXCEPT
                      ![model_config] = DictUpdate(g.heap[model_config], config)]
         IN  [raised |-> FALSE,
              nc |-> set_configs(g.nc, model_config, node_id, model_name),
              heap |-> h2,
              nm |-> [st.nm EXCEPT ![node_id] = model_name]]

\* set_model_config: [raised, nc, heap, nm]; an omitted or empty config is {}
set_model_config(st, ms, node_id, model_name, config) ==
    LET model_class == ModelsGet(ms, model_name) IN
    IF model_class = NoClass
    THEN [raised |-> TRUE, nc |-> st.nc, heap |-> st.heap, nm |-> st.nm]
    ELSE LET g == get_model_config(st, ms, node_id, model_name)
             model_config == g.value
             h2 == [g.heap EXCEPT
                      ![model_config] = DictUpdate(g.heap[model_config], config)]
         IN  [raised |-> FALSE,
              nc |-> set_configs(g.nc, model_config, node_id, model_name),
              heap |-> h2,
              nm |-> [st.nm EXCEPT ![node_id] = model_name]]

-----------------------------------------------------------------------------
(* EmaneNet: NEM ids and position events *)

Netifs == {"A", "B"}

NoNemId == -1   \* getnemid returns None

NoNetif == "None"   \* getnemnetif returns None

\* the interfaces that can be attached to the network node
TransportTypes == {"virtual", "Virtual", "raw"}

\* netif.poshook: None, self.setnemposition, or a hook set by someone else
Hooks == {"None", "setnemposition", "other"}

\* the call on an interface that raises, if one does
Failures == {"none", "setaddrs", "setposition"}

\* an interface that is not in self._netif
Detached == [attached |-> FALSE, poshook |-> "None",
             transport_type |-> "raw", fails |-> "none"]

\* ifc.node.id of the interfaces: B belongs to the node with the lower id
NodeOf == [i \in Netifs |-> IF i = "A" THEN 2 ELSE 1]

\* the keys of self._netif
Attached(ifs) == {i \in Netifs : ifs[i].attached}

RECURSIVE SortedByNode(_)
\* sorted(..., key=lambda ifc: ifc.node.id)
SortedByNode(S) ==
    IF S = {} THEN << >>
    ELSE LET first == CHOOSE i \in S : \A j \in S : NodeOf[i] <= NodeOf[j]
         IN  <<first>> \o SortedByNode(S \ {first})

\* netifs: a new list of the attached interfaces, sorted by node id
netifs_list(ifs) == SortedByNode(Attached(ifs))

\* no installnetifs / deinstallnetifs call is under way; of the last call:
\* the interfaces attached and their hooks when it started, the interfaces it
\* went through and the calls it made on them
NoIter == [pc |-> "idle", todo |-> << >>, visited |-> << >>,
           calls |-> << >>, start |-> {},
           before |-> [i \in Netifs |-> "None"]]

\* str.lower() of the transport types
Lower(t) == IF t = "Virtual" THEN "virtual" ELSE t

\* "virtual" in t
HasVirtual(t) == t = "virtual"

\* (mutation of setnemid: an interface keeps the id it has)
setnemid_setdefault(nm, netif, nemid) ==
    IF DictHas(nm, netif) THEN nm ELSE DictSet(nm, netif, nemid)

\* (mutation of setnemid: the id is taken from the interfaces that hold it)
setnemid_exclusive(nm, netif, nemid) ==
    DictSet(SelectSeq(nm, LAMBDA item : item[1] = netif \/ item[2] # nemid),
            netif, nemid)

\* setnemid: self.nemidmap[netif] = nemid
setnemid(nm, netif, nemid) == DictSet(nm, netif, nemid)

RECURSIVE getnemnetif_last(_, _)
\* (mutation of getnemnetif: the last interface that matches)
getnemnetif_last(nm, nemid) ==
    IF nm = << >> THEN NoNetif
    ELSE IF nm[Len(nm)][2] = nemid THEN nm[Len(nm)][1]
    ELSE getnemnetif_last(SubSeq(nm, 1, Len(nm) - 1), nemid)

RECURSIVE getnemnetif(_, _)
\* getnemnetif: the first interface of the mapping whose id is nemid
getnemnetif(nm, nemid) ==
    IF nm = << >> THEN NoNetif
    ELSE IF Head(nm)[2] = nemid THEN Head(nm)[1]
    ELSE getnemnetif(Tail(nm), nemid)

\* getnemid
getnemid(nm, netif) ==
    IF ~DictHas(nm, netif) THEN NoNemId ELSE DictGet(nm, netif)

\* (mutation of IntRound: the fraction is cut off)
IntRound_truncate(alt) == (alt \div 10) * 10

\* int(round(alt)): altitudes are in tenths; round() takes a tie to the even
\* integer
IntRound(alt) ==
    LET q == alt \div 10
        r == alt % 10
    IN  IF r < 5 THEN q * 10
        ELSE IF r > 5 THEN (q + 1) * 10
        ELSE IF q % 2 = 0 THEN q * 10 ELSE (q + 1) * 10

\* (mutation of nem_position: the node's altitude is taken when it is truthy)
nem_position_truthy(nm, g, palt, netif) ==
    LET nemid == getnemid(nm, netif) IN
    IF nemid = NoNemId THEN << >>
    ELSE LET alt == IF palt[netif] # << >> /\ palt[netif][1] # 0
                    THEN palt[netif][1]
                    ELSE g[netif].alt
         IN  <<nemid, g[netif].lon, g[netif].lat, IntRound(alt)>>

\* _nem_position: <<nemid, lon, lat, alt>>, or << >> for None
nem_position(nm, g, palt, netif) ==
    LET nemid == getnemid(nm, netif) IN
    IF nemid = NoNemId THEN << >>
    ELSE LET alt == IF palt[netif] # << >> THEN palt[netif][1]
                    ELSE g[netif].alt
         IN  <<nemid, g[netif].lon, g[netif].lat, IntRound(alt)>>

\* event.append(nemid, latitude=lat, longitude=lon, altitude=alt)
EventAppend(event, position) ==
    Append(event, [nemid |-> position[1], latitude |-> position[3],
                   longitude |-> position[2], altitude |-> position[4]])

\* self.model = None / self.mobility = None
NoInstance == [cls |-> NoClass, config |-> << >>, configs |-> << >>]

\* model(session=self.session, _id=self.id) followed by update_config(config):
\* an instance of the class that holds the configuration it was given;
\* configs is what set_configs has handed it since, << >> if nothing
Instance(cls, config) == [cls |-> cls, config |-> config, configs |-> << >>]

\* (mutation of setmodel: the role is not looked at, every class goes to
\* self.model)
setmodel_radio(slots, cls, config) ==
    [raised |-> FALSE, model |-> Instance(cls, config),
     mobility |-> slots.mobility]

\* setmodel: [raised, model, mobility]; slots is [model, mobility]
setmodel(slots, cls, config) ==
    IF ClassDef(cls).config_type = WIRELESS
    THEN [raised |-> FALSE, model |-> Instance(cls, config),
          mobility |-> slots.mobility]
    ELSE IF ClassDef(cls).config_type = MOBILITY
    THEN [raised |-> FALSE, model |-> slots.model,
          mobility |-> Instance(cls, config)]
    ELSE [raised |-> FALSE, model |-> slots.model, mobility |-> slots.mobility]

\* (mutation of updatemodel: with no radio model the mobility model is
\* taken)
updatemodel_either(slots, config) ==
    IF slots.model # NoInstance
    THEN [raised |-> FALSE,
          model |-> [slots.model EXCEPT !.configs = <<config>>],
          mobility |-> slots.mobility]
    ELSE IF slots.mobility # NoInstance
    THEN [raised |-> FALSE, model |-> slots.model,
          mobility |-> [slots.mobility EXCEPT !.configs = <<config>>]]
    ELSE [raised |-> TRUE, model |-> slots.model, mobility |-> slots.mobility]

\* updatemodel: [raised, model, mobility]
updatemodel(slots, config) ==
    IF slots.model = NoInstance                      \* `if not self.model`
    THEN [raised |-> TRUE, model |-> slots.model, mobility |-> slots.mobility]
    ELSE [raised |-> FALSE,
          model |-> [slots.model EXCEPT !.configs = <<config>>],
          mobility |-> slots.mobility]

\* (mutation of Unavailable: the service is never found missing)
Unavailable_never(svc) == FALSE

\* self.session.emane.service is None
Unavailable(svc) == ~svc

\* (mutation of EmptyBatch: the length is not looked at)
EmptyBatch_never(moved_netifs) == FALSE

\* len(moved_netifs) == 0
EmptyBatch(moved_netifs) == Len(moved_netifs) = 0

\* service.publish(0, event): [raised, published]; with no service the
\* attribute lookup on None raises
publish(svc, sink, event) ==
    IF svc THEN [raised |-> FALSE, published |-> Append(sink, event)]
    ELSE [raised |-> TRUE, published |-> sink]

\* (mutation of setnemposition: the event is published whether or not the
\* position is None)
setnemposition_always(nm, svc, g, palt, netif) ==
    IF Unavailable(svc) THEN [raised |-> FALSE, published |-> << >>]
    ELSE LET position == nem_position(nm, g, palt, netif) IN
         publish(svc, << >>,
                 IF position # << >> THEN EventAppend(<< >>, position)
                 ELSE << >>)

\* setnemposition: [raised, published]
setnemposition(nm, svc, g, palt, netif) ==
    IF Unavailable(svc) THEN [raised |-> FALSE, published |-> << >>]
    ELSE LET position == nem_position(nm, g, palt, netif) IN
         IF position # << >>
         THEN publish(svc, << >>, EventAppend(<< >>, position))
         ELSE [raised |-> FALSE, published |-> << >>]

RECURSIVE BatchEvent(_, _, _, _, _)
\* the loop of setnempositions: an entry for every position that is not None
BatchEvent(nm, g, palt, netifs, event) ==
    IF netifs = << >> THEN event
    ELSE LET position == nem_position(nm, g, palt, Head(netifs)) IN
         BatchEvent(nm, g, palt, Tail(netifs),
                    IF position # << >> THEN EventAppend(event, position)
                    ELSE event)

RECURSIVE PublishEach(_, _, _, _, _, _)
\* (mutation of setnempositions: one event for every interface)
PublishEach(nm, svc, g, palt, netifs, sink) ==
    IF netifs = << >> THEN [raised |-> FALSE, published |-> sink]
    ELSE PublishEach(nm, svc, g, palt, Tail(netifs),
             sink \o setnemposition(nm, svc, g, palt, Head(netifs)).published)

setnempositions_each(nm, svc, g, palt, moved_netifs) ==
    PublishEach(nm, svc, g, palt, moved_netifs, << >>)

RECURSIVE UntilUnknown(_, _)
\* the interfaces in front of the first one without a NEM id
UntilUnknown(nm, netifs) ==
    IF netifs = << >> \/ getnemid(nm, Head(netifs)) = NoNemId THEN << >>
    ELSE <<Head(netifs)>> \o UntilUnknown(nm, Tail(netifs))

\* (mutation of setnempositions: the loop ends at a position that is None)
setnempositions_break(nm, svc, g, palt, moved_netifs) ==
    IF EmptyBatch(moved_netifs) \/ Unavailable(svc)
    THEN [raised |-> FALSE, published |-> << >>]
    ELSE publish(svc, << >>,
                 BatchEvent(nm, g, palt, UntilUnknown(nm, moved_netifs), << >>))

\* setnempositions: [raised, published]
setnempositions(nm, svc, g, palt, moved_netifs) ==
    IF EmptyBatch(moved_netifs) THEN [raised |-> FALSE, published |-> << >>]
    ELSE IF Unavailable(svc) THEN [raised |-> FALSE, published |-> << >>]
    ELSE publish(svc, << >>, BatchEvent(nm, g, palt, moved_netifs, << >>))

-----------------------------------------------------------------------------
(* ModelManager and a node *)

\* (mutation of set_model: the node is handed the overrides of the call, not
\* the mapping get_model_config returns)
set_model_overrides(st, ms, slots, node_id, cls, config) ==
    LET name == ClassDef(cls).name
        s1 == set_model_config(st, ms, node_id, name, config)
    IN  IF s1.raised
        THEN [raised |-> TRUE, nc |-> st.nc, heap |-> st.heap, nm |-> st.nm,
              model |-> slots.model, mobility |-> slots.mobility]
        ELSE LET g == get_model_config([nc |-> s1.nc, heap |-> s1.heap,
                                        nm |-> s1.nm], ms, node_id, name)
                 n == setmodel(slots, cls, config)
             IN  [raised |-> n.raised, nc |-> g.nc, heap |-> g.heap,
                  nm |-> s1.nm, model |-> n.model, mobility |-> n.mobility]

\* (mutation of set_model: the model is attached to the node before the name
\* is looked up)
set_model_attach_first(st, ms, slots, node_id, cls, config) ==
    LET name == ClassDef(cls).name
        s1 == set_model_config(st, ms, node_id, name, config)
    IN  IF s1.raised
        THEN LET n == setmodel(slots, cls, config)
             IN  [raised |-> TRUE, nc |-> st.nc, heap |-> st.heap,
                  nm |-> st.nm, model |-> n.model, mobility |-> n.mobility]
        ELSE LET g == get_model_config([nc |-> s1.nc, heap |-> s1.heap,
                                        nm |-> s1.nm], ms, node_id, name)
                 n == setmodel(slots, cls, g.heap[g.value])
             IN  [raised |-> n.raised, nc |-> g.nc, heap |-> g.heap,
                  nm |-> s1.nm, model |-> n.model, mobility |-> n.mobility]

\* set_model: [raised, nc, heap, nm, model, mobility]; the node is handed the
\* mapping get_model_config returns
set_model(st, ms, slots, node_id, cls, config) ==
    LET name == ClassDef(cls).name
        s1 == set_model_config(st, ms, node_id, name, config)
    IN  IF s1.raised
        THEN [raised |-> TRUE, nc |-> st.nc, heap |-> st.heap, nm |-> st.nm,
              model |-> slots.model, mobility |-> slots.mobility]
        ELSE LET g == get_model_config([nc |-> s1.nc, heap |-> s1.heap,
                                        nm |-> s1.nm], ms, node_id, name)
                 n == setmodel(slots, cls, g.heap[g.value])
             IN  [raised |-> n.raised, nc |-> g.nc, heap |-> g.heap,
                  nm |-> s1.nm, model |-> n.model, mobility |-> n.mobility]

RECURSIVE ModelsOf(_, _, _)
\* the loop of get_models over the type keys of a node: [raised, value]
ModelsOf(all_configs, ms, found) ==
    IF all_configs = << >> THEN [raised |-> FALSE, value |-> found]
    ELSE LET model_name == Head(all_configs)[1]
             config == Head(all_configs)[2]
         IN  IF model_name = default_type
             THEN ModelsOf(Tail(all_configs), ms, found)
             ELSE IF ms[model_name] = NoClass          \* KeyError
             THEN [raised |-> TRUE, value |-> << >>]
             ELSE ModelsOf(Tail(all_configs), ms,
                           Append(found, <<ms[model_name], config>>))

\* get_models: [raised, value], value a list of <<class, reference>>
get_models(st, ms, node_id) ==
    LET all_configs == IF DictHas(st.nc, node_id)
                       THEN DictGet(st.nc, node_id) ELSE << >>
    IN  ModelsOf(all_configs, ms, << >>)

-----------------------------------------------------------------------------
(* Operations of the manager, as actions *)

Outcome(op, raised, value) == [op |-> op, raised |-> raised, value |-> value]

NoGot == [node |-> default_node, model |-> NoModel, value |-> << >>,
          again |-> FALSE]

Store == [nc |-> node_configurations, heap |-> heap, nm |-> node_models]

\* the stored (node, type) -> mapping view of the store, references resolved
StoreView(nc, h) ==
    [i \in 1..Len(nc) |->
        <<nc[i][1], [j \in 1..Len(nc[i][2]) |->
                        <<nc[i][2][j][1], h[nc[i][2][j][2]]>>]>>]

\* (mutation of Register: a model of the same name takes the place of the
\* registered one)
Register_overwrite(cls) ==
    /\ ret' = Outcome("register", FALSE, None)
    /\ models' = [models EXCEPT ![ClassDef(cls).name] = cls]
    /\ heap' = Normal(node_configurations, heap, None).heap
    /\ UNCHANGED <<node_configurations, node_models>>

\* register(model): the registry is filled by the managers that derive from
\* ModelManager; a second model of the same name is refused
Register(cls) ==
    LET name == ClassDef(cls).name IN
    /\ IF ModelsGet(models, name) # NoClass
       THEN /\ ret' = Outcome("register", TRUE, None)
            /\ UNCHANGED models
       ELSE /\ ret' = Outcome("register", FALSE, None)
            /\ models' = [models EXCEPT ![name] = cls]
    /\ heap' = Normal(node_configurations, heap, None).heap
    /\ UNCHANGED <<node_configurations, node_models>>

SetModelConfig(node_id, model_name, config) ==
    \E r \in {set_model_config(Store, models, node_id, model_name, config)} :
    \E n \in {Normal(r.nc, r.heap, None)} :
    /\ node_configurations' = n.nc
    /\ heap' = n.heap
    /\ node_models' = r.nm
    /\ ret' = Outcome("set_model_config", r.raised, None)
    /\ UNCHANGED models

GetModelConfig(node_id, model_name) ==
    \E r \in {get_model_config(Store, models, node_id, model_name)} :
    \E n \in {Normal(r.nc, r.heap, r.value)} :
    /\ node_configurations' = n.nc
    /\ heap' = n.heap
    /\ ret' = Outcome("get_model_config", r.raised, n.held)
    /\ UNCHANGED <<models, node_models>>

ConfigReset(given, node_id) ==
    \E n \in {Normal(config_reset(node_configurations, given, node_id), heap,
                    None)} :
    /\ node_configurations' = n.nc
    /\ heap' = n.heap
    /\ ret' = Outcome("config_reset", FALSE, None)
    /\ UNCHANGED <<models, node_models>>

\* set_configs with a mapping the caller has just built
SetConfigs(config, node_id, config_type) ==
    \E r \in {Alloc(heap)} :
    \E n \in {Normal(set_configs(node_configurations, r, node_id, config_type),
                    HeapPut(heap, r, config), None)} :
    /\ node_configurations' = n.nc
    /\ heap' = n.heap
    /\ ret' = Outcome("set_configs", FALSE, None)
    /\ UNCHANGED <<models, node_models>>

\* set_configs with the mapping get_configs returned for another (node, type):
\* the store then refers to one object from two places
SetConfigsOf(from_node, from_type, node_id, config_type) ==
    \E config \in {get_configs(node_configurations, from_node, from_type)} :
    /\ config # None
    /\ \E n \in {Normal(set_configs(node_configurations, config, node_id,
                                    config_type), heap, None)} :
        /\ node_configurations' = n.nc
        /\ heap' = n.heap
    /\ ret' = Outcome("set_configs", FALSE, None)
    /\ UNCHANGED <<models, node_models>>

SetConfig(_id, value, node_id, config_type) ==
    \E r \in {set_config(Store, _id, value, node_id, config_type)} :
    \E n \in {Normal(r.nc, r.heap, None)} :
    /\ node_configurations' = n.nc
    /\ heap' = n.heap
    /\ ret' = Outcome("set_config", FALSE, None)
    /\ UNCHANGED <<models, node_models>>

-----------------------------------------------------------------------------
(* History variables *)

OptionKeys == {"range", "bandwidth", "file"}
Pairs == NodeIds \X ClassNames

Fresh == [valid |-> TRUE, ncalls |-> 0, last |-> [k \in OptionKeys |-> Unset]]

\* per key, the value of the latest call that supplied it
Latest(last, config) ==
    [k \in OptionKeys |->
        IF DictHas(config, k) THEN DictGet(config, k) ELSE last[k]]

\* The overrides supplied to each (node, model) pair since the pair last had
\* no stored configuration.  kind is "call" for a successful set_model_config
\* on the pair, "write" for another write to it (set_configs, set_config),
\* which ends the sequence of calls, and "none" otherwise.
SuppliedAfter(nc1, node_id, model_name, kind, config) ==
    [p \in Pairs |->
        IF get_configs(nc1, p[1], p[2]) = None THEN Fresh
        ELSE IF p # <<node_id, model_name>> \/ kind = "none" THEN supplied[p]
        ELSE IF kind = "write" THEN [supplied[p] EXCEPT !.valid = FALSE]
        ELSE [valid |-> supplied[p].valid,
              ncalls |-> IF supplied[p].ncalls = 0 THEN 1 ELSE 2,
              last |-> Latest(supplied[p].last, config)]]

\* the first successful get_model_config since the last write, and whether
\* the same pair has been read again since
GotAfter(node_id, model_name, value) ==
    IF got = NoGot
    THEN [node |-> node_id, model |-> model_name, value |-> value,
          again |-> FALSE]
    ELSE IF got.node = node_id /\ got.model = model_name
         THEN [got EXCEPT !.again = TRUE]
         ELSE got

-----------------------------------------------------------------------------
(* Inputs *)

\* the number of calls made on a manager
MaxOps == 4

\* override maps handed to set_model_config, per model
Overrides(model_name) ==
    IF model_name = "basic_range"
    THEN {<< >>, << <<"range", "400">> >>,
          << <<"bandwidth", "11">>, <<"range", "500">> >>}
    ELSE {<< >>, << <<"file", "a">> >>}

\* mappings handed to set_configs
Configs == {<< >>, << <<"bandwidth", "11">> >>}

-----------------------------------------------------------------------------
(* Specification of the manager: every operation, in any order *)

Threads == {1, 2}

\* a thread that is not inside set_model_config
Idle == [pc |-> "idle", config |-> << >>, model_config |-> None, key |-> None]

\* no thread is inside a call
InitThreads ==
    /\ threads = [t \in Threads |-> Idle]
    /\ start = [nc |-> << >>, heap |-> << >>, nm |-> [n \in NodeIds |-> NoModel]]

\* the network node after construction, with no event service yet
InitNet ==
    /\ nemidmap = << >>
    /\ service = FALSE
    /\ geo = [i \in Netifs |-> [lat |-> 20, lon |-> 10, alt |-> 34]]
    /\ position_alt = [i \in Netifs |-> << >>]
    /\ published = << >>
    /\ moved = << >>
    /\ dropped = {}
    /\ model = NoInstance
    /\ mobility = NoInstance
    /\ attaches = 0
    /\ listed = << >>
    /\ found_netif = NoNetif
    /\ entered = << >>
    /\ ifaces = [i \in Netifs |-> Detached]
    /\ genloc = FALSE
    /\ external = "0"
    /\ iter = NoIter
    /\ nem_pos = << >>
    /\ answer = NoAnswer

Init ==
    /\ node_configurations = << >>
    /\ heap = << >>
    /\ models = [m \in ModelNames |-> NoClass]
    /\ node_models = [n \in NodeIds |-> NoModel]
    /\ ret = Outcome("init", FALSE, None)
    /\ supplied = [p \in Pairs |-> Fresh]
    /\ got = NoGot
    /\ nops = 0
    /\ InitNet
    /\ InitThreads

\* one more call is made on the manager
Call ==
    /\ nops < MaxOps
    /\ nops' = nops + 1
    /\ UNCHANGED <<net_vars, thread_vars, slot_vars, ifc_vars>>

DoRegister ==
    \E cls \in ModelClasses :
        Call /\ Register(cls) /\ UNCHANGED <<supplied, got>>

DoSetModelConfig ==
    \E n \in NodeIds, m \in ModelNames : \E o \in Overrides(m) :
        /\ Call
        /\ SetModelConfig(n, m, o)
        /\ supplied' = SuppliedAfter(node_configurations', n, m,
                           IF ret'.raised THEN "none" ELSE "call", o)
        /\ got' = IF ret'.raised THEN got ELSE NoGot

DoGetModelConfig ==
    \E n \in NodeIds, m \in ModelNames :
        /\ Call
        /\ GetModelConfig(n, m)
        /\ supplied' = SuppliedAfter(node_configurations', n, m, "none", << >>)
        /\ got' = IF ret'.raised THEN got
                  ELSE GotAfter(n, m, heap'[ret'.value])

DoConfigReset ==
    /\ Call
    /\ \/ ConfigReset(FALSE, default_node)
       \/ \E n \in NodeIds : ConfigReset(TRUE, n)
    /\ supplied' = SuppliedAfter(node_configurations', default_node, NoModel,
                                 "none", << >>)
    /\ got' = NoGot

DoSetConfigs ==
    \E c \in Configs, n \in NodeIds, m \in ClassNames :
        /\ Call
        /\ SetConfigs(c, n, m)
        /\ supplied' = SuppliedAfter(node_configurations', n, m, "write", c)
        /\ got' = NoGot

DoSetConfigsOf ==
    \E p \in Pairs, q \in Pairs :
        /\ p # q
        /\ Call
        /\ SetConfigsOf(p[1], p[2], q[1], q[2])
        /\ supplied' =
              [r \in Pairs |->
                 IF get_configs(node_configurations', r[1], r[2]) = None
                 THEN Fresh
                 ELSE IF r \in {p, q} THEN [supplied[r] EXCEPT !.valid = FALSE]
                 ELSE supplied[r]]
        /\ got' = NoGot

DoSetConfig ==
    \E n \in NodeIds, m \in ClassNames :
        /\ Call
        /\ SetConfig("range", "400", n, m)
        /\ supplied' = SuppliedAfter(node_configurations', n, m, "write", << >>)
        /\ got' = NoGot

Next ==
    \/ DoRegister
    \/ DoSetModelConfig
    \/ DoGetModelConfig
    \/ DoConfigReset
    \/ DoSetConfigs
    \/ DoSetConfigsOf
    \/ DoSetConfig

Spec == Init /\ [][Next]_vars

-----------------------------------------------------------------------------
(* Properties of the manager *)

Stored(node_id, model_name) ==
    heap[get_configs(node_configurations, node_id, model_name)]

\* C1: after a sequence of set_model_config calls on a (node, model) pair
\* that started with no stored configuration, the stored configuration has
\* the keys of the model's defaults and every key supplied, and each key has
\* the value of the latest call that supplied it, or its default when no call
\* supplied it (get_model_config calls may come in between).
C1_MergeInCallOrder ==
    \A p \in Pairs :
        (supplied[p].valid /\ supplied[p].ncalls >= 1) =>
            LET defaults == default_values(models[p[2]])
                last == supplied[p].last
            IN  /\ get_configs(node_configurations, p[1], p[2]) # None
                /\ KeySet(Stored(p[1], p[2])) =
                       KeySet(defaults) \cup {k \in OptionKeys : last[k] # Unset}
                /\ \A k \in KeySet(Stored(p[1], p[2])) :
                       DictGet(Stored(p[1], p[2]), k) =
                           IF last[k] # Unset THEN last[k]
                           ELSE DictGet(defaults, k)

\* two calls: "range" supplied by both (the later value stands), "bandwidth"
\* by the first only
C1_Witness ==
    \E n \in NodeIds :
        /\ supplied[<<n, "basic_range">>].valid
        /\ supplied[<<n, "basic_range">>].ncalls = 2
        /\ supplied[<<n, "basic_range">>].last["range"] = "400"
        /\ supplied[<<n, "basic_range">>].last["bandwidth"] = "11"
        /\ Stored(n, "basic_range") =
               << <<"range", "400">>, <<"bandwidth", "11">> >>

\* C3: set_model_config and get_model_config with a model name that is not
\* registered raise, and leave the store, the registry and the recorded
\* startup models as they were.
C3_InvalidModelNoChange ==
    [][\A n \in NodeIds, m \in ModelNames : \A o \in Overrides(m) :
          (/\ models[m] = NoClass
           /\ \/ ret'.op = "set_model_config" /\ SetModelConfig(n, m, o)
              \/ ret'.op = "get_model_config" /\ GetModelConfig(n, m))
          => /\ ret'.raised
             /\ node_configurations' = node_configurations
             /\ heap' = heap
             /\ node_models' = node_models
             /\ models' = models]_vars

C3_Witness ==
    /\ ret.raised
    /\ ret.op \in {"set_model_config", "get_model_config"}
    /\ node_configurations # << >>
    /\ \E n \in NodeIds : node_models[n] # NoModel

\* C10: once get_model_config(node, model) has returned, a later
\* get_model_config(node, model) with no write in between returns a mapping
\* equal to the first result and leaves the stored configurations unchanged.
C10_GetIdempotent ==
    [][\A n \in NodeIds, m \in ModelNames :
          (/\ got # NoGot /\ got.node = n /\ got.model = m
           /\ ret'.op = "get_model_config" /\ GetModelConfig(n, m))
          => /\ ~ret'.raised
             /\ heap'[ret'.value] = got.value
             /\ StoreView(node_configurations', heap') =
                    StoreView(node_configurations, heap)]_vars

C10_Witness ==
    /\ got.again
    /\ ret.op = "get_model_config"
    /\ ~ret.raised
    /\ heap[ret.value] = got.value

\* (scope, type) has an entry in the store, whatever the mapping holds
Present(nc, node_id, config_type) ==
    DictHas(nc, node_id) /\ DictHas(DictGet(nc, node_id), config_type)

\* the mapping stored for a (scope, type) that has an entry
StoredAt(nc, h, node_id, config_type) ==
    h[DictGet(DictGet(nc, node_id), config_type)]

\* C11: get_model_config(node, model) stores the defaults of the model if and
\* only if (node, model) has no stored configuration: with none stored, the
\* defaults are stored and returned; with one stored by any operation, also
\* set_configs with a mapping that has no keys, that one is returned as it is
\* stored and stays stored.
C11_DefaultsOnlyWhenAbsent ==
    [][\A n \in NodeIds, m \in ClassNames :
          (/\ models[m] # NoClass
           /\ ret'.op = "get_model_config"
           /\ GetModelConfig(n, m))
          => /\ ~ret'.raised
             /\ Present(node_configurations', n, m)
             /\ heap'[ret'.value] = StoredAt(node_configurations', heap', n, m)
             /\ IF Present(node_configurations, n, m)
                THEN heap'[ret'.value] = StoredAt(node_configurations, heap, n, m)
                ELSE heap'[ret'.value] = default_values(models[m])]_vars

\* C12: set_model_config(node, model, overrides) with an empty or omitted
\* override map, on a (node, model) that has a stored configuration, leaves
\* that configuration as it is: same keys, same values, same order.
C12_EmptyOverrideNoChange ==
    [][\A n \in NodeIds, m \in ClassNames :
          (/\ Present(node_configurations, n, m)
           /\ ret'.op = "set_model_config"
           /\ SetModelConfig(n, m, << >>))
          => /\ Present(node_configurations', n, m)
             /\ StoredAt(node_configurations', heap', n, m) =
                    StoredAt(node_configurations, heap, n, m)]_vars

\* C16: config_reset with a node id given, whichever id it is (0 as well),
\* removes the entries of that node and leaves those of every other node as
\* they are; config_reset with no node id removes every node; neither raises,
\* also for a node that has no entries.
C16_ResetOneScope ==
    [][/\ \A n \in NodeIds :
            (ret'.op = "config_reset" /\ ConfigReset(TRUE, n))
            => /\ ~ret'.raised
               /\ StoreView(node_configurations', heap') =
                    LET view == StoreView(node_configurations, heap)
                    IN  IF DictHas(view, n) THEN DictPop(view, n) ELSE view
       /\ (ret'.op = "config_reset" /\ ConfigReset(FALSE, default_node))
            => /\ ~ret'.raised
               /\ node_configurations' = << >>]_vars

\* the (scope, type) pairs of the store
AllPairs == NodeIds \X (ClassNames \cup {default_type})

\* (scope, type) has the same entry, or none, in both stores
SameAt(nc1, h1, nc2, h2, p) ==
    /\ Present(nc1, p[1], p[2]) = Present(nc2, p[1], p[2])
    /\ Present(nc1, p[1], p[2])
         => StoredAt(nc1, h1, p[1], p[2]) = StoredAt(nc2, h2, p[1], p[2])

\* C17: set_configs(values, scope, type) overwrites: afterwards
\* get_configs(scope, type) is values exactly, whatever was stored before, so
\* a key stored earlier and not in values is gone; every other (scope, type)
\* is as it was.
C17_FullOverwrite ==
    [][\A c \in Configs, n \in NodeIds, m \in ClassNames :
          (ret'.op = "set_configs" /\ SetConfigs(c, n, m))
          => /\ get_configs(node_configurations', n, m) # None
             /\ heap'[get_configs(node_configurations', n, m)] = c
             /\ \A p \in AllPairs \ {<<n, m>>} :
                   SameAt(node_configurations', heap',
                          node_configurations, heap, p)]_vars

\* set_model_config had stored "range" for the pair; the set_configs that
\* followed left "bandwidth" only
C17_Witness ==
    /\ ret.op = "set_configs"
    /\ \E p \in Pairs :
          /\ supplied[p].ncalls >= 1
          /\ ~supplied[p].valid
          /\ Present(node_configurations, p[1], p[2])
          /\ StoredAt(node_configurations, heap, p[1], p[2]) =
                << <<"bandwidth", "11">> >>

\* C18: set_config(option, value, scope, type) sets one value: afterwards the
\* scope and the type exist and the option has the value, every other option
\* of (scope, type) has the value it had, and every other (scope, type) is as
\* it was.
C18_UpsertOne ==
    [][\A n \in NodeIds, m \in ClassNames :
          (ret'.op = "set_config" /\ SetConfig("range", "400", n, m))
          => /\ Present(node_configurations', n, m)
             /\ LET new == StoredAt(node_configurations', heap', n, m)
                    old == IF Present(node_configurations, n, m)
                           THEN StoredAt(node_configurations, heap, n, m)
                           ELSE << >>
                IN  /\ DictHas(new, "range")
                    /\ DictGet(new, "range") = "400"
                    /\ KeySet(new) = KeySet(old) \cup {"range"}
                    /\ \A k \in KeySet(old) \ {"range"} :
                          DictGet(new, k) = DictGet(old, k)
             /\ \A p \in AllPairs \ {<<n, m>>} :
                   SameAt(node_configurations', heap',
                          node_configurations, heap, p)]_vars

-----------------------------------------------------------------------------
(* EmaneNet: the interfaces of the network node *)

\* the state of a call of installnetifs / deinstallnetifs as it starts
Begin(ifs) ==
    [raised |-> FALSE, ifaces |-> ifs, visited |-> << >>, calls |-> << >>,
     published |-> << >>]

\* (mutation of install_one: the hook is left alone when no location events
\* are generated)
install_one_keep(st, netif, env) ==
    LET seen == [st EXCEPT !.visited = Append(@, netif)] IN
    IF env.model = NoInstance THEN [seen EXCEPT !.raised = TRUE]
    ELSE LET addressed ==
                 IF env.external = "0"
                 THEN [seen EXCEPT !.calls = Append(@, <<netif, "setaddrs">>)]
                 ELSE seen
         IN  IF env.external = "0" /\ st.ifaces[netif].fails = "setaddrs"
             THEN [addressed EXCEPT !.raised = TRUE]
             ELSE IF ~env.genloc THEN addressed
             ELSE LET hooked ==
                          [addressed EXCEPT
                              !.ifaces[netif].poshook = "setnemposition",
                              !.calls = Append(@, <<netif, "setposition">>)]
                  IN  IF st.ifaces[netif].fails = "setposition"
                      THEN [hooked EXCEPT !.raised = TRUE]
                      ELSE LET r == setnemposition(env.nemidmap, env.service,
                                        env.geo, env.position_alt, netif)
                           IN  [hooked EXCEPT !.published = @ \o r.published,
                                              !.raised = r.raised]

\* the body of the loop of installnetifs for one interface: self.model.name
\* raises with no model; setaddrs unless externally bridged; the hook cleared,
\* or set and setposition called, which calls the hook
install_one(st, netif, env) ==
    LET seen == [st EXCEPT !.visited = Append(@, netif)] IN
    IF env.model = NoInstance THEN [seen EXCEPT !.raised = TRUE]
    ELSE LET addressed ==
                 IF env.external = "0"
                 THEN [seen EXCEPT !.calls = Append(@, <<netif, "setaddrs">>)]
                 ELSE seen
         IN  IF env.external = "0" /\ st.ifaces[netif].fails = "setaddrs"
             THEN [addressed EXCEPT !.raised = TRUE]
             ELSE IF ~env.genloc
             THEN [addressed EXCEPT !.ifaces[netif].poshook = "None"]
             ELSE LET hooked ==
                          [addressed EXCEPT
                              !.ifaces[netif].poshook = "setnemposition",
                              !.calls = Append(@, <<netif, "setposition">>)]
                  IN  IF st.ifaces[netif].fails = "setposition"
                      THEN [hooked EXCEPT !.raised = TRUE]
                      ELSE LET r == setnemposition(env.nemidmap, env.service,
                                        env.geo, env.position_alt, netif)
                           IN  [hooked EXCEPT !.published = @ \o r.published,
                                              !.raised = r.raised]

RECURSIVE InstallLoop(_, _, _)
\* for netif in self.netifs(): an exception ends the loop
InstallLoop(st, todo, env) ==
    IF todo = << >> \/ st.raised THEN st
    ELSE InstallLoop(install_one(st, Head(todo), env), Tail(todo), env)

\* installnetifs
installnetifs(ifs, env) == InstallLoop(Begin(ifs), netifs_list(ifs), env)

\* (mutation of deinstall_one: the transport type is compared as it is)
deinstall_one_exact(st, netif) ==
    LET seen == [st EXCEPT !.visited = Append(@, netif)]
        down == IF HasVirtual(st.ifaces[netif].transport_type)
                THEN [seen EXCEPT !.calls = Append(@, <<netif, "shutdown">>)]
                ELSE seen
    IN  [down EXCEPT !.ifaces[netif].poshook = "None"]

\* the body of the loop of deinstallnetifs for one interface
deinstall_one(st, netif) ==
    LET seen == [st EXCEPT !.visited = Append(@, netif)]
        down == IF HasVirtual(Lower(st.ifaces[netif].transport_type))
                THEN [seen EXCEPT !.calls = Append(@, <<netif, "shutdown">>)]
                ELSE seen
    IN  [down EXCEPT !.ifaces[netif].poshook = "None"]

RECURSIVE DeinstallLoop(_, _)
\* for netif in self.netifs()
DeinstallLoop(st, todo) ==
    IF todo = << >> \/ st.raised THEN st
    ELSE DeinstallLoop(deinstall_one(st, Head(todo)), Tail(todo))

\* deinstallnetifs
deinstallnetifs(ifs) == DeinstallLoop(Begin(ifs), netifs_list(ifs))

-----------------------------------------------------------------------------
(* Operations of the network node, as actions *)

\* setnemid
SetNemId(netif, nemid) ==
    /\ nemidmap' = setnemid(nemidmap, netif, nemid)
    /\ ret' = Outcome("setnemid", FALSE, None)
    /\ published' = << >>
    /\ UNCHANGED <<service, geo, position_alt, moved, dropped>>

\* setnemposition
PublishSingle(netif) ==
    \E r \in {setnemposition(nemidmap, service, geo, position_alt, netif)} :
    /\ ret' = Outcome("setnemposition", r.raised, None)
    /\ published' = r.published
    /\ moved' = <<netif>>
    /\ dropped' = IF service THEN dropped ELSE dropped \cup {netif}
    /\ UNCHANGED <<nemidmap, service, geo, position_alt>>

\* setnempositions
PublishBatch(moved_netifs) ==
    \E r \in {setnempositions(nemidmap, service, geo, position_alt,
                              moved_netifs)} :
    /\ ret' = Outcome("setnempositions", r.raised, None)
    /\ published' = r.published
    /\ moved' = moved_netifs
    /\ dropped' = IF service THEN dropped
                  ELSE dropped \cup {moved_netifs[i] : i \in 1..Len(moved_netifs)}
    /\ UNCHANGED <<nemidmap, service, geo, position_alt>>

\* the event service is started or lost (session.emane.service is assigned by
\* the EMANE manager)
SetService(svc) ==
    /\ service' = svc
    /\ ret' = Outcome("service", FALSE, None)
    /\ published' = << >>
    /\ UNCHANGED <<nemidmap, geo, position_alt, moved, dropped>>

\* the node of an interface moves, or its altitude is set
Move(netif, place) ==
    /\ geo' = [geo EXCEPT ![netif] = place.geo]
    /\ position_alt' = [position_alt EXCEPT ![netif] = place.alt]
    /\ ret' = Outcome("move", FALSE, None)
    /\ published' = << >>
    /\ UNCHANGED <<nemidmap, service, moved, dropped>>

-----------------------------------------------------------------------------
(* Specification of the network node *)

MaxBatch == 2

NemIds == {10, 11}

\* what getgeo returns for the places a node is at (lon 1.0, lat 2.0,
\* alt 3.4 and so on, in tenths), and the altitude the node declares
Places ==
    {[geo |-> [lat |-> 20, lon |-> 10, alt |-> 34], alt |-> << >>],
     [geo |-> [lat |-> 40, lon |-> 30, alt |-> 126], alt |-> << >>],
     [geo |-> [lat |-> 40, lon |-> 30, alt |-> 124], alt |-> << >>],
     [geo |-> [lat |-> 40, lon |-> 30, alt |-> 125], alt |-> << >>],
     [geo |-> [lat |-> 60, lon |-> 50, alt |-> 126], alt |-> <<35>>],
     [geo |-> [lat |-> 60, lon |-> 50, alt |-> 126], alt |-> <<-16>>]}

Batches == UNION {[1..k -> Netifs] : k \in 0..MaxBatch}

DoSetNemId ==
    \E i \in Netifs, id \in NemIds : SetNemId(i, id) /\ UNCHANGED <<mgr_vars, thread_vars, slot_vars, ifc_vars>>

DoPublishSingle ==
    \E i \in Netifs : PublishSingle(i) /\ UNCHANGED <<mgr_vars, thread_vars, slot_vars, ifc_vars>>

DoPublishBatch ==
    \E b \in Batches : PublishBatch(b) /\ UNCHANGED <<mgr_vars, thread_vars, slot_vars, ifc_vars>>

DoSetService ==
    \E svc \in BOOLEAN : SetService(svc) /\ UNCHANGED <<mgr_vars, thread_vars, slot_vars, ifc_vars>>

DoMove ==
    \E i \in Netifs, place \in Places : Move(i, place) /\ UNCHANGED <<mgr_vars, thread_vars, slot_vars, ifc_vars>>

NextNet ==
    \/ DoSetNemId
    \/ DoPublishSingle
    \/ DoPublishBatch
    \/ DoSetService
    \/ DoMove

SpecNet == Init /\ [][NextNet]_vars

-----------------------------------------------------------------------------
(* Properties of the network node *)

\* the interfaces of a list that have a NEM id, in the order of the list
Resolved(nm, netifs) == SelectSeq(netifs, LAMBDA i : DictHas(nm, i))

RECURSIVE Entries(_)
\* the entries of a sequence of events, in the order they were handed over
Entries(events) ==
    IF events = << >> THEN << >> ELSE Head(events) \o Entries(Tail(events))

\* the altitude _nem_position starts from: the node's own altitude when it
\* has one, else the one getgeo returns
SourceAlt(netif) ==
    IF position_alt[netif] # << >> THEN position_alt[netif][1]
    ELSE geo[netif].alt

\* C4: setnempositions on a non-empty list, with the event service there,
\* hands the service exactly one event, never one for every interface; the
\* event has one entry for every interface of the list that has a NEM id, in
\* the order of the list.
C4_OneEventInOrder ==
    [][\A b \in Batches :
        (/\ b # << >>
         /\ service
         /\ ret'.op = "setnempositions"
         /\ moved' = b
         /\ PublishBatch(b))
        => /\ Len(published') = 1
           /\ LET r == Resolved(nemidmap, b)
                  event == published'[1]
              IN  /\ Len(event) = Len(r)
                  /\ \A k \in 1..Len(r) :
                        /\ event[k].nemid = DictGet(nemidmap, r[k])
                        /\ event[k].latitude = geo[r[k]].lat
                        /\ event[k].longitude = geo[r[k]].lon]_vars

C4_Witness ==
    /\ ret.op = "setnempositions"
    /\ Len(moved) = 2
    /\ moved[1] # moved[2]
    /\ Len(published) = 1
    /\ Len(published[1]) = 2
    /\ published[1][1].nemid = DictGet(nemidmap, moved[1])
    /\ published[1][2].nemid = DictGet(nemidmap, moved[2])
    /\ published[1][1].nemid # published[1][2].nemid

\* C5: in setnempositions an interface without a NEM id is passed over, with
\* no exception and without ending the batch: wherever it stands in the list,
\* every interface of the list that has a NEM id still gets its entry, and
\* there are no other entries.
C5_UnknownSkipped ==
    [][\A b \in Batches :
        (/\ service
         /\ \E k \in 1..Len(b) : ~DictHas(nemidmap, b[k])
         /\ ret'.op = "setnempositions"
         /\ moved' = b
         /\ PublishBatch(b))
        => /\ ~ret'.raised
           /\ LET r == Resolved(nemidmap, b)
                  entries == Entries(published')
              IN  /\ Len(entries) = Len(r)
                  /\ \A k \in 1..Len(r) :
                        \E j \in 1..Len(entries) :
                            /\ entries[j].nemid = DictGet(nemidmap, r[k])
                            /\ entries[j].latitude = geo[r[k]].lat
                            /\ entries[j].longitude = geo[r[k]].lon]_vars

C5_Witness ==
    /\ ret.op = "setnempositions"
    /\ ~ret.raised
    /\ Len(moved) = 2
    /\ ~DictHas(nemidmap, moved[1])
    /\ DictHas(nemidmap, moved[2])
    /\ Len(published) = 1
    /\ Len(published[1]) = 1
    /\ published[1][1].nemid = DictGet(nemidmap, moved[2])

\* C6: no event with zero entries is ever handed to the event service; in
\* particular setnempositions on a non-empty list of interfaces none of which
\* has a NEM id hands it nothing.
C6_NoEmptyEvent ==
    \A k \in 1..Len(published) : published[k] # << >>

\* C7: setnempositions on an empty list hands the event service nothing and
\* raises nothing, whether the service is there or not.
C7_EmptyListNoEvent ==
    [][(/\ ret'.op = "setnempositions"
        /\ moved' = << >>
        /\ PublishBatch(<< >>))
       => /\ published' = << >>
          /\ ~ret'.raised]_vars

C7_Witness ==
    /\ ret.op = "setnempositions"
    /\ ~ret.raised
    /\ moved = << >>
    /\ service
    /\ published = << >>
    /\ nemidmap # << >>

\* C8: whatever setnemposition and setnempositions calls are made while the
\* event service comes and goes, a call made while there is no service raises
\* nothing, hands the service nothing and keeps nothing for later: the service
\* coming back hands it nothing, and a call made while it is there hands it
\* entries for the interfaces of that call only.
C8_NoServiceNoEvent ==
    [][/\ \A b \in Batches :
            (~service /\ ret'.op = "setnempositions" /\ moved' = b
                /\ PublishBatch(b))
            => /\ ~ret'.raised
               /\ published' = << >>
               /\ nemidmap' = nemidmap
       /\ \A i \in Netifs :
            (~service /\ ret'.op = "setnemposition" /\ moved' = <<i>>
                /\ PublishSingle(i))
            => /\ ~ret'.raised
               /\ published' = << >>
               /\ nemidmap' = nemidmap
       /\ service' # service => published' = << >>
       /\ \A b \in Batches :
            (service /\ ret'.op \in {"setnempositions", "setnemposition"}
                /\ moved' = b
                /\ (PublishBatch(b) \/ (Len(b) = 1 /\ PublishSingle(b[1]))))
            => LET entries == Entries(published')
               IN  \A j \in 1..Len(entries) :
                      \E k \in 1..Len(b) :
                          /\ entries[j].nemid = getnemid(nemidmap, b[k])
                          /\ entries[j].latitude = geo[b[k]].lat]_vars

C8_Witness ==
    /\ service
    /\ ret.op \in {"setnempositions", "setnemposition"}
    /\ published # << >>
    /\ \E i \in dropped :
          /\ DictHas(nemidmap, i)
          /\ \A k \in 1..Len(moved) : moved[k] # i
          /\ \A j \in 1..Len(Entries(published)) :
                Entries(published)[j].nemid # DictGet(nemidmap, i)

\* C9: the altitude of every entry handed to the event service is a whole
\* number, the one nearest to the altitude it comes from: 12.6 gives 13, 12.4
\* gives 12 and 3.4 gives 3.
C9_AltitudeRounded ==
    [][\A b \in Batches :
        (/\ service
         /\ ret'.op \in {"setnempositions", "setnemposition"}
         /\ moved' = b
         /\ (PublishBatch(b) \/ (Len(b) = 1 /\ PublishSingle(b[1]))))
        => LET r == Resolved(nemidmap, b)
               entries == Entries(published')
           IN  \A k \in 1..Len(r) :
                  LET alt == SourceAlt(r[k])
                      altitude == entries[k].altitude
                  IN  /\ altitude % 10 = 0
                      /\ altitude - alt <= 5
                      /\ alt - altitude <= 5
                      /\ alt = 126 => altitude = 130
                      /\ alt = 124 => altitude = 120
                      /\ alt = 34 => altitude = 30]_vars

C9_Witness ==
    /\ ret.op = "setnempositions"
    /\ Len(moved) = 2
    /\ Len(published) = 1
    /\ Len(published[1]) = 2
    /\ SourceAlt(moved[1]) = 126
    /\ published[1][1].altitude = 130
    /\ SourceAlt(moved[2]) = 124
    /\ published[1][2].altitude = 120

-----------------------------------------------------------------------------
(* set_model_config run by two threads, statement by statement.  Nothing in
   ModelManager takes a lock, so the statements of the two calls interleave
   in any order. *)

\* the node and the model both threads configure
ConcNode == CHOOSE n \in NodeIds : n # 0
ConcModel == "basic_range"

\* model_class = self.models.get(model_name); if not model_class: raise
\* (in set_model_config and again in get_model_config)
T_Check(t) ==
    /\ threads[t].pc = "call"
    /\ threads' = [threads EXCEPT ![t].pc =
                     IF ModelsGet(models, ConcModel) = NoClass THEN "raised"
                     ELSE "get_configs"]
    /\ UNCHANGED <<node_configurations, heap, node_models>>

\* config = self.get_configs(node_id=node_id, config_type=model_name)
T_GetConfigs(t) ==
    /\ threads[t].pc = "get_configs"
    /\ threads' = [threads EXCEPT
                     ![t].pc = "defaults",
                     ![t].model_config =
                        get_configs(node_configurations, ConcNode, ConcModel)]
    /\ UNCHANGED <<node_configurations, heap, node_models>>

\* if not config: config = model_class.default_values(); self.set_configs(...)
\* return config
T_Defaults(t) ==
    /\ threads[t].pc = "defaults"
    /\ IF Falsy(heap, threads[t].model_config)
       THEN \E r \in {Alloc(heap)} :
            /\ heap' = HeapPut(heap, r,
                               default_values(ModelsGet(models, ConcModel)))
            /\ node_configurations' =
                  set_configs(node_configurations, r, ConcNode, ConcModel)
            /\ threads' = [threads EXCEPT ![t].pc = "merge",
                                          ![t].model_config = r,
                                          ![t].key = 1]
       ELSE /\ threads' = [threads EXCEPT ![t].pc = "merge", ![t].key = 1]
            /\ UNCHANGED <<node_configurations, heap>>
    /\ UNCHANGED node_models

\* for key in config: model_config[key] = config[key]   (one key)
T_Merge(t) ==
    /\ threads[t].pc = "merge"
    /\ threads[t].key <= Len(threads[t].config)
    /\ LET item == threads[t].config[threads[t].key]
           model_config == threads[t].model_config
       IN  heap' = [heap EXCEPT
                      ![model_config] = DictSet(heap[model_config],
                                                item[1], item[2])]
    /\ threads' = [threads EXCEPT ![t].key = threads[t].key + 1]
    /\ UNCHANGED <<node_configurations, node_models>>

\* self.node_models[node_id] = model_name, once the loop is over
T_NodeModels(t) ==
    /\ threads[t].pc = "merge"
    /\ threads[t].key > Len(threads[t].config)
    /\ node_models' = [node_models EXCEPT ![ConcNode] = ConcModel]
    /\ threads' = [threads EXCEPT ![t].pc = "set_configs"]
    /\ UNCHANGED <<node_configurations, heap>>

\* self.set_configs(model_config, node_id=node_id, config_type=model_name)
T_SetConfigs(t) ==
    /\ threads[t].pc = "set_configs"
    /\ node_configurations' =
          set_configs(node_configurations, threads[t].model_config,
                      ConcNode, ConcModel)
    /\ threads' = [threads EXCEPT ![t].pc = "done"]
    /\ UNCHANGED <<heap, node_models>>

\* what the other parts of the model keep while the threads run
ThreadStep ==
    UNCHANGED <<models, ret, supplied, got, nops, net_vars, start, slot_vars,
                ifc_vars>>

\* the configurations the two calls are given
ThreadConfigs ==
    Overrides(ConcModel) \cup {<< <<"range", "300">>, <<"bandwidth", "2">> >>}

\* the store the two calls start from: nothing stored for the node, or what
\* one earlier set_model_config left there
Starts ==
    LET empty == [nc |-> << >>, heap |-> << >>,
                  nm |-> [n \in NodeIds |-> NoModel]]
        ms == [m \in ModelNames |->
                 IF m = ConcModel THEN "BasicRangeModel" ELSE NoClass]
    IN  {empty} \cup
        {LET r == set_model_config(empty, ms, ConcNode, ConcModel, o)
         IN  [nc |-> r.nc, heap |-> r.heap, nm |-> r.nm] :
            o \in {<< >>, << <<"range", "400">> >>}}

InitConc ==
    /\ models = [m \in ModelNames |->
                   IF m = ConcModel THEN "BasicRangeModel" ELSE NoClass]
    /\ start \in Starts
    /\ node_configurations = start.nc
    /\ heap = start.heap
    /\ node_models = start.nm
    /\ threads \in [Threads -> {[pc |-> "call", config |-> c,
                                 model_config |-> None, key |-> None] :
                                   c \in ThreadConfigs}]
    /\ ret = Outcome("init", FALSE, None)
    /\ supplied = [p \in Pairs |-> Fresh]
    /\ got = NoGot
    /\ nops = 0
    /\ InitNet

DoCheck == \E t \in Threads : T_Check(t) /\ ThreadStep

DoGetConfigs == \E t \in Threads : T_GetConfigs(t) /\ ThreadStep

DoDefaults == \E t \in Threads : T_Defaults(t) /\ ThreadStep

DoMerge == \E t \in Threads : T_Merge(t) /\ ThreadStep

DoNodeModels == \E t \in Threads : T_NodeModels(t) /\ ThreadStep

DoThreadSetConfigs == \E t \in Threads : T_SetConfigs(t) /\ ThreadStep

NextConc ==
    \/ DoCheck
    \/ DoGetConfigs
    \/ DoDefaults
    \/ DoMerge
    \/ DoNodeModels
    \/ DoThreadSetConfigs

SpecConc == InitConc /\ [][NextConc]_vars

\* what is stored for the pair after the call with config c1 and then the
\* call with config c2 have run one after the other from store st
InTurn(st, c1, c2) ==
    LET a == set_model_config(st, models, ConcNode, ConcModel, c1)
        b == set_model_config([nc |-> a.nc, heap |-> a.heap, nm |-> a.nm],
                              models, ConcNode, ConcModel, c2)
    IN  b.heap[get_configs(b.nc, ConcNode, ConcModel)]

\* C2: two set_model_config calls for the same node and model that run
\* concurrently serialize: however their statements interleave, once both have
\* returned the stored configuration is what running the two calls one after
\* the other, in one of the two orders, leaves there.
C2_Serialized ==
    (\A t \in Threads : threads[t].pc = "done")
    => heap[get_configs(node_configurations, ConcNode, ConcModel)]
          \in {InTurn(start, threads[1].config, threads[2].config),
               InTurn(start, threads[2].config, threads[1].config)}

-----------------------------------------------------------------------------
(* The manager and a network node: models attached to the node *)

\* self.id of the network node
NetId == CHOOSE n \in NodeIds : n # 0

Slots == [model |-> model, mobility |-> mobility]

\* configurations handed to setmodel and updatemodel
NodeConfigs == {<< >>, << <<"range", "400">> >>}

\* EmaneNet.setmodel
Attach(cls, config) ==
    \E r \in {setmodel(Slots, cls, config)} :
    /\ model' = r.model
    /\ mobility' = r.mobility
    /\ ret' = Outcome("setmodel", r.raised, None)
    /\ attaches' = IF ClassDef(cls).config_type # WIRELESS THEN attaches
                   ELSE IF attaches = 0 THEN 1 ELSE 2
    /\ UNCHANGED <<node_configurations, heap, models, node_models, listed>>

\* EmaneNet.updatemodel
UpdateModel(config) ==
    \E r \in {updatemodel(Slots, config)} :
    /\ model' = r.model
    /\ mobility' = r.mobility
    /\ ret' = Outcome("updatemodel", r.raised, None)
    /\ UNCHANGED <<node_configurations, heap, models, node_models, attaches,
                   listed>>

\* ModelManager.set_model on the network node
SetModel(cls, config) ==
    \E r \in {set_model(Store, models, Slots, NetId, cls, config)} :
    \E n \in {Normal(r.nc, r.heap, None)} :
    /\ node_configurations' = n.nc
    /\ heap' = n.heap
    /\ node_models' = r.nm
    /\ model' = r.model
    /\ mobility' = r.mobility
    /\ ret' = Outcome("set_model", r.raised, None)
    /\ attaches' = IF r.raised \/ ClassDef(cls).config_type # WIRELESS
                   THEN attaches
                   ELSE IF attaches = 0 THEN 1 ELSE 2
    /\ UNCHANGED <<models, listed>>

\* ModelManager.get_models on the network node; the list is kept with the
\* mappings its references stand for
GetModels ==
    \E r \in {get_models(Store, models, NetId)} :
    /\ listed' = [k \in 1..Len(r.value) |->
                    <<r.value[k][1], heap[r.value[k][2]]>>]
    /\ ret' = Outcome("get_models", r.raised, None)
    /\ UNCHANGED <<node_configurations, heap, models, node_models, model,
                   mobility, attaches>>

\* one more call is made, on the manager or on the node
NodeCall ==
    /\ nops < MaxOps
    /\ nops' = nops + 1
    /\ UNCHANGED <<net_vars, thread_vars, supplied, got, ifc_vars>>

\* a manager operation that leaves the node alone
MgrCall == NodeCall /\ UNCHANGED <<model, mobility, attaches, listed>>

\* the classes handed to register: two of them carry the same name
RegisterClasses == ModelClasses \cup {"RangeModelB"}

DoRegisterModel == \E cls \in RegisterClasses : MgrCall /\ Register(cls)

DoStoreModelConfig ==
    \E m \in ClassNames : \E o \in Overrides(m) :
        MgrCall /\ SetModelConfig(NetId, m, o)

DoStoreConfig ==
    \E m \in ClassNames \cup {default_type} :
        MgrCall /\ SetConfig("range", "400", NetId, m)

DoAttach ==
    \E cls \in NodeModelClasses, c \in NodeConfigs : NodeCall /\ Attach(cls, c)

DoUpdateModel == \E c \in NodeConfigs : NodeCall /\ UpdateModel(c)

DoSetModel ==
    \E cls \in ModelClasses : \E o \in Overrides(ClassDef(cls).name) :
        NodeCall /\ SetModel(cls, o)

DoGetModels == NodeCall /\ GetModels

NextAttach ==
    \/ DoRegisterModel
    \/ DoStoreModelConfig
    \/ DoStoreConfig
    \/ DoAttach
    \/ DoUpdateModel
    \/ DoSetModel
    \/ DoGetModels

SpecAttach == Init /\ [][NextAttach]_vars

-----------------------------------------------------------------------------
(* Properties of the models attached to the node *)

Role(cls) == ClassDef(cls).config_type

\* C13: the node holds at most one radio model and at most one mobility
\* model: setmodel with a radio class makes the radio model an instance of
\* that class, in place of the one before, and leaves the mobility model as
\* it is; setmodel with a mobility class leaves the radio model as it is; the
\* radio slot only ever holds a radio model and the mobility slot a mobility
\* model.
C13_OneModelPerRole ==
    [][/\ \A cls \in NodeModelClasses, c \in NodeConfigs :
            (ret'.op = "setmodel" /\ Attach(cls, c))
            => /\ Role(cls) = WIRELESS
                    => model' = Instance(cls, c) /\ mobility' = mobility
               /\ Role(cls) = MOBILITY
                    => mobility' = Instance(cls, c) /\ model' = model
       /\ model' # NoInstance => Role(model'.cls) = WIRELESS
       /\ mobility' # NoInstance => Role(mobility'.cls) = MOBILITY]_vars

\* a second radio model has taken the place of the first, with a mobility
\* model attached
C13_Witness ==
    /\ ret.op = "setmodel"
    /\ attaches = 2
    /\ model.cls = "RfPipeModel"
    /\ mobility.cls = "MobilityModel"

\* C14: setmodel with a class whose role is neither radio nor mobility
\* raises, and leaves the attached radio and mobility models as they are.
C14_UnsupportedRoleRaises ==
    [][\A cls \in NodeModelClasses, c \in NodeConfigs :
          (/\ Role(cls) \notin {WIRELESS, MOBILITY}
           /\ ret'.op = "setmodel"
           /\ Attach(cls, c))
          => /\ ret'.raised
             /\ model' = model
             /\ mobility' = mobility]_vars

\* C15: updatemodel raises whenever no radio model is attached, also with a
\* mobility model attached, and then leaves the node as it is; with a radio
\* model attached it hands the configuration to that model and does not
\* raise.
C15_UpdateNeedsRadioModel ==
    [][\A c \in NodeConfigs :
          (ret'.op = "updatemodel" /\ UpdateModel(c))
          => IF model = NoInstance
             THEN /\ ret'.raised
                  /\ model' = model
                  /\ mobility' = mobility
             ELSE /\ ~ret'.raised
                  /\ model' = [model EXCEPT !.configs = <<c>>]
                  /\ mobility' = mobility]_vars

C15_Witness ==
    /\ ret.op = "updatemodel"
    /\ ret.raised
    /\ model = NoInstance
    /\ mobility # NoInstance

\* C19: set_model(node, model, overrides) for a registered model leaves the
\* node with an instance of that class in the slot of its role, whose
\* configuration is the one stored for (node id, model name) after the merge
\* of the overrides, and the store holds what set_model_config alone would
\* have left there.
C19_SetModelAttachesStored ==
    [][\A cls \in ModelClasses : \A o \in Overrides(ClassDef(cls).name) :
          (/\ models[ClassDef(cls).name] # NoClass
           /\ ret'.op = "set_model"
           /\ SetModel(cls, o))
          => LET name == ClassDef(cls).name
                 alone == set_model_config(Store, models, NetId, name, o)
                 slot == IF Role(cls) = WIRELESS THEN model' ELSE mobility'
             IN  /\ ~ret'.raised
                 /\ slot.cls = cls
                 /\ Present(node_configurations', NetId, name)
                 /\ slot.config =
                       StoredAt(node_configurations', heap', NetId, name)
                 /\ StoreView(node_configurations', heap') =
                       StoreView(alone.nc, alone.heap)]_vars

\* an override merged over a configuration stored before the call
C19_Witness ==
    /\ ret.op = "set_model"
    /\ ~ret.raised
    /\ model.cls = "BasicRangeModel"
    /\ model.config = << <<"range", "400">>, <<"bandwidth", "11">> >>
    /\ StoredAt(node_configurations, heap, NetId, "basic_range") = model.config

\* what get_models is to return: a pair for every type key of the node but
\* the sentinel, in the order of the keys
ModelsListed ==
    LET all_configs == IF DictHas(node_configurations, NetId)
                       THEN DictGet(node_configurations, NetId) ELSE << >>
        keys == SelectSeq(all_configs, LAMBDA item : item[1] # default_type)
    IN  [k \in 1..Len(keys) |-> <<models[keys[k][1]], heap[keys[k][2]]>>]

\* C20: get_models(node) returns a (model class, configuration) pair for
\* every type key configured for the node but the sentinel one, each with the
\* configuration stored for it, in the order the type keys were first
\* configured; the list is empty for a node with no configuration; it raises
\* for no store content.
C20_GetModelsListsAll ==
    [][(ret'.op = "get_models" /\ GetModels)
       => /\ ~ret'.raised
          /\ listed' = ModelsListed
          /\ \A k \in 1..Len(listed') : listed'[k][1] # NoClass]_vars

\* C21: register(model) enters the model in the registry under its name;
\* with a model of that name registered already it raises and the registered
\* model stays.
C21_RegisterOnce ==
    [][\A cls \in RegisterClasses :
          (ret'.op = "register" /\ Register(cls))
          => IF models[ClassDef(cls).name] = NoClass
             THEN /\ ~ret'.raised
                  /\ models' = [models EXCEPT ![ClassDef(cls).name] = cls]
             ELSE /\ ret'.raised
                  /\ models' = models]_vars

\* a second class of the name "basic_range" was refused
C21_Witness ==
    /\ ret.op = "register"
    /\ ret.raised
    /\ models["basic_range"] = "RangeModelB"
    /\ models["mobility"] # NoClass

-----------------------------------------------------------------------------
(* The NEM id mapping of the network node *)

\* the interfaces given ids, one more than the ones that move
IdNetifs == Netifs \cup {"C"}

\* setnemid, with the order of first assignment kept
AssignId(netif, nemid) ==
    /\ nemidmap' = setnemid(nemidmap, netif, nemid)
    /\ entered' = IF \E k \in 1..Len(entered) : entered[k] = netif
                  THEN entered ELSE Append(entered, netif)
    /\ ret' = Outcome("setnemid", FALSE, None)
    /\ found_netif' = NoNetif

\* getnemid
LookupId(netif) ==
    /\ ret' = Outcome("getnemid", FALSE, getnemid(nemidmap, netif))
    /\ found_netif' = NoNetif
    /\ UNCHANGED <<nemidmap, entered>>

\* getnemnetif
LookupNetif(nemid) ==
    /\ found_netif' = getnemnetif(nemidmap, nemid)
    /\ ret' = Outcome("getnemnetif", FALSE, None)
    /\ UNCHANGED <<nemidmap, entered>>

\* what a call on the id mapping leaves alone
IdStep ==
    UNCHANGED <<mgr_vars, thread_vars, slot_vars, service, geo, position_alt,
                published, moved, dropped, ifaces, genloc, external, iter,
                nem_pos, answer>>

DoAssignId ==
    \E i \in IdNetifs, id \in NemIds : AssignId(i, id) /\ IdStep

DoLookupId == \E i \in IdNetifs : LookupId(i) /\ IdStep

DoLookupNetif == \E id \in NemIds : LookupNetif(id) /\ IdStep

NextIds ==
    \/ DoAssignId
    \/ DoLookupId
    \/ DoLookupNetif

SpecIds == Init /\ [][NextIds]_vars

\* C22: setnemid(interface, id) is last write wins, with no check that the id
\* is free: afterwards getnemid(interface) is id, whatever id the interface
\* had, every other interface has the id it had, and the call does not raise
\* when another interface holds the id; getnemid of an interface never given
\* an id returns None.
C22_LastIdWins ==
    [][/\ \A i \in IdNetifs, id \in NemIds :
            (ret'.op = "setnemid" /\ AssignId(i, id))
            => /\ ~ret'.raised
               /\ getnemid(nemidmap', i) = id
               /\ \A j \in IdNetifs \ {i} :
                     getnemid(nemidmap', j) = getnemid(nemidmap, j)
       /\ \A i \in IdNetifs :
            (ret'.op = "getnemid" /\ LookupId(i))
            => /\ ~ret'.raised
               /\ (\E k \in 1..Len(entered) : entered[k] = i)
                     => ret'.value \in NemIds
               /\ ~(\E k \in 1..Len(entered) : entered[k] = i)
                     => ret'.value = NoNemId]_vars

\* an interface was given a second id, one that another interface holds
C22_Witness ==
    /\ ret.op = "setnemid"
    /\ Len(entered) = 2
    /\ getnemid(nemidmap, entered[1]) = 11
    /\ getnemid(nemidmap, entered[2]) = 11
    /\ getnemid(nemidmap, "C") = NoNemId
    /\ nops = 0

\* C23: getnemnetif(id) returns None when no interface has the id; otherwise
\* it returns an interface that has the id, and of several that have it the
\* one that was first given an id (not the one given this id first or last),
\* and it does not raise.
C23_FirstEnteredFound ==
    [][\A id \in NemIds :
          (ret'.op = "getnemnetif" /\ LookupNetif(id))
          => LET holders == {i \in IdNetifs : getnemid(nemidmap, i) = id} IN
             /\ ~ret'.raised
             /\ holders = {} => found_netif' = NoNetif
             /\ holders # {}
                  => /\ found_netif' \in holders
                     /\ \A k \in 1..Len(entered) :
                           entered[k] \in holders
                           => \E j \in 1..k : entered[j] = found_netif']_vars

\* two interfaces hold id 10; the one entered first is found
C23_Witness ==
    /\ ret.op = "getnemnetif"
    /\ Len(entered) = 3
    /\ getnemid(nemidmap, entered[1]) = 11
    /\ getnemid(nemidmap, entered[2]) = 10
    /\ getnemid(nemidmap, entered[3]) = 10
    /\ found_netif = entered[2]

\* C27: setnemposition(interface) with the event service there hands the
\* service exactly one event with exactly one entry, the interface's NEM id and
\* position, when the interface has a NEM id, and hands it nothing when the
\* interface has none; it raises neither for a missing id nor for a missing
\* service.
C27_SingleEventOrNone ==
    [][\A i \in Netifs :
          (ret'.op = "setnemposition" /\ moved' = <<i>> /\ PublishSingle(i))
          => /\ ~ret'.raised
             /\ (service /\ getnemid(nemidmap, i) # NoNemId)
                  => /\ Len(published') = 1
                     /\ published'[1] =
                          <<[nemid |-> getnemid(nemidmap, i),
                             latitude |-> geo[i].lat,
                             longitude |-> geo[i].lon,
                             altitude |-> IntRound(SourceAlt(i))]>>
             /\ (service /\ getnemid(nemidmap, i) = NoNemId)
                  => published' = << >>
             /\ ~service => published' = << >>]_vars

\* with the service there, B, which has no id, is published alone after A,
\* which has one, was given its id
C27_Witness ==
    /\ service
    /\ ret.op = "setnemposition"
    /\ moved = <<"B">>
    /\ ~DictHas(nemidmap, "B")
    /\ DictHas(nemidmap, "A")
    /\ published = << >>
    /\ geo["B"].lat = 40

-----------------------------------------------------------------------------
(* The interfaces of the network node: installnetifs and deinstallnetifs *)

\* what installnetifs reads of the node and of its session
Env ==
    [model |-> model, external |-> external, genloc |-> genloc,
     nemidmap |-> nemidmap, service |-> service, geo |-> geo,
     position_alt |-> position_alt]

\* the interfaces that get attached
NetifRecords ==
    [attached : {TRUE}, poshook : Hooks, transport_type : TransportTypes,
     fails : Failures]

\* the record of a call that has ended is kept until the next operation
Forget(it) == IF it.pc = "idle" THEN NoIter ELSE it

\* an interface is attached to the network node; one that a call under way
\* still holds comes back as the object it is
AddNetif(i, rec) ==
    /\ ~ifaces[i].attached
    /\ \/ iter.pc = "idle"
       \/ i \notin iter.start
       \/ rec = [ifaces[i] EXCEPT !.attached = TRUE]
    /\ ifaces' = [ifaces EXCEPT ![i] = rec]
    /\ iter' = Forget(iter)
    /\ ret' = Outcome("attach", FALSE, None)
    /\ published' = << >>
    /\ UNCHANGED <<model, genloc, external>>

\* an interface is detached; a call under way may still hold it
RemoveNetif(i) ==
    /\ ifaces[i].attached
    /\ ifaces' = [ifaces EXCEPT
                     ![i] = IF iter.pc = "idle" THEN Detached
                            ELSE [@ EXCEPT !.attached = FALSE]]
    /\ iter' = Forget(iter)
    /\ ret' = Outcome("detach", FALSE, None)
    /\ published' = << >>
    /\ UNCHANGED <<model, genloc, external>>

\* session.emane.genlocationevents() changes
SetGenLoc(b) ==
    /\ genloc # b
    /\ genloc' = b
    /\ iter' = Forget(iter)
    /\ ret' = Outcome("genlocationevents", FALSE, None)
    /\ published' = << >>
    /\ UNCHANGED <<model, external, ifaces>>

\* the "external" option of the node's model changes
SetExternal(v) ==
    /\ external # v
    /\ external' = v
    /\ iter' = Forget(iter)
    /\ ret' = Outcome("external", FALSE, None)
    /\ published' = << >>
    /\ UNCHANGED <<model, genloc, ifaces>>

\* setmodel with a radio model
SetRadio(cls) ==
    \E r \in {setmodel(Slots, cls, << >>)} :
    /\ model # r.model
    /\ model' = r.model
    /\ iter' = Forget(iter)
    /\ ret' = Outcome("setmodel", r.raised, None)
    /\ published' = << >>
    /\ UNCHANGED <<genloc, external, ifaces>>

\* the record of a call that ran from ifs to its end r
Ended(ifs, r) ==
    [pc |-> "idle", todo |-> << >>, visited |-> r.visited, calls |-> r.calls,
     start |-> Attached(ifs), before |-> [i \in Netifs |-> ifs[i].poshook]]

\* installnetifs
InstallNetifs ==
    \E r \in {installnetifs(ifaces, Env)} :
    /\ ifaces' = r.ifaces
    /\ iter' = Ended(ifaces, r)
    /\ ret' = Outcome("installnetifs", r.raised, None)
    /\ published' = r.published
    /\ UNCHANGED <<model, genloc, external>>

\* deinstallnetifs
DeinstallNetifs ==
    \E r \in {deinstallnetifs(ifaces)} :
    /\ ifaces' = r.ifaces
    /\ iter' = Ended(ifaces, r)
    /\ ret' = Outcome("deinstallnetifs", r.raised, None)
    /\ published' = r.published
    /\ UNCHANGED <<model, genloc, external>>

\* what the operations on the interfaces leave alone
IfcStep ==
    UNCHANGED <<mgr_vars, thread_vars, mobility, attaches, listed, nemidmap,
                service, geo, position_alt, moved, dropped, found_netif,
                entered, nem_pos, answer>>

DoAddNetif ==
    \E i \in Netifs, rec \in NetifRecords : AddNetif(i, rec) /\ IfcStep

DoRemoveNetif == \E i \in Netifs : RemoveNetif(i) /\ IfcStep

DoSetGenLoc == \E b \in BOOLEAN : SetGenLoc(b) /\ IfcStep

DoSetExternal == \E v \in {"0", "1"} : SetExternal(v) /\ IfcStep

DoSetRadio == SetRadio("RfPipeModel") /\ IfcStep

DoInstallNetifs == InstallNetifs /\ IfcStep

DoDeinstallNetifs == DeinstallNetifs /\ IfcStep

NextIfc ==
    \/ DoAddNetif
    \/ DoRemoveNetif
    \/ DoSetGenLoc
    \/ DoSetExternal
    \/ DoSetRadio
    \/ DoInstallNetifs
    \/ DoDeinstallNetifs

SpecIfc == Init /\ [][NextIfc]_vars

\* C24: when installnetifs returns, every attached interface has the hook
\* setnemposition if location events are generated and no hook if they are
\* not, whatever hook it had before.
C24_HooksFollowGenLoc ==
    [][(ret'.op = "installnetifs" /\ ~ret'.raised /\ InstallNetifs)
       => \A i \in Attached(ifaces') :
             ifaces'[i].poshook = IF genloc THEN "setnemposition"
                                  ELSE "None"]_vars

\* installnetifs returned with location events off, and it cleared a foreign
\* hook on one interface and its own hook on the other
C24_Witness ==
    /\ ret.op = "installnetifs" /\ ~ret.raised
    /\ ~genloc
    /\ iter.start = Netifs
    /\ iter.before["A"] = "other"
    /\ iter.before["B"] = "setnemposition"
    /\ \A i \in Netifs : ifaces[i].attached /\ ifaces[i].poshook = "None"

\* C25: installnetifs handles every interface on its own: when the step of
\* one interface fails (setaddrs or setposition raises, or there is no model
\* to read the "external" option for), the error does not reach the caller
\* and every other attached interface is still gone through.
C25_FailureIsolated ==
    [][(ret'.op = "installnetifs" /\ InstallNetifs)
       => /\ ~ret'.raised
          /\ {iter'.visited[k] : k \in 1..Len(iter'.visited)}
                = Attached(ifaces)]_vars

\* C26: when deinstallnetifs returns, no attached interface has a hook,
\* virtual transport or not, and shutdown was called on the interfaces with a
\* virtual transport and on no other.
C26_HooksClearedVirtualDown ==
    [][(ret'.op = "deinstallnetifs" /\ DeinstallNetifs)
       => /\ ~ret'.raised
          /\ \A i \in Attached(ifaces') : ifaces'[i].poshook = "None"
          /\ \A i \in Netifs :
                (\E k \in 1..Len(iter'.calls) :
                    iter'.calls[k] = <<i, "shutdown">>)
                <=> /\ ifaces[i].attached
                    /\ ifaces[i].transport_type \in {"virtual", "Virtual"}]_vars

\* deinstallnetifs went through a virtual interface and a raw one that both
\* had a hook, and shut the virtual one down
C26_Witness ==
    /\ ret.op = "deinstallnetifs"
    /\ iter.start = Netifs
    /\ iter.before["A"] = "setnemposition"
    /\ iter.before["B"] = "other"
    /\ ifaces["A"].transport_type = "Virtual"
    /\ ifaces["B"].transport_type = "raw"
    /\ iter.calls = <<<<"A", "shutdown">>>>
    /\ \A i \in Netifs : ifaces[i].poshook = "None"

-----------------------------------------------------------------------------
(* installnetifs and deinstallnetifs, one interface at a time, while
   interfaces are attached and detached *)

\* (mutation of Remaining: the loop goes over self._netif as it is now)
Remaining_live(it, ifs) ==
    SelectSeq(netifs_list(ifs),
              LAMBDA i : \A k \in 1..Len(it.visited) : it.visited[k] # i)

\* what the loop has still to go through: the rest of the list that
\* self.netifs() returned
Remaining(it, ifs) == it.todo

\* the call starts: self.netifs() is evaluated
StartCall(pc) ==
    /\ iter.pc = "idle"
    /\ iter' = [pc |-> pc, todo |-> netifs_list(ifaces), visited |-> << >>,
                calls |-> << >>, start |-> Attached(ifaces),
                before |-> [i \in Netifs |-> ifaces[i].poshook]]
    /\ ret' = Outcome("call", FALSE, None)
    /\ published' = << >>
    /\ UNCHANGED <<ifaces, model, genloc, external>>

\* the state of the call under way
Running ==
    [raised |-> FALSE, ifaces |-> ifaces, visited |-> iter.visited,
     calls |-> iter.calls, published |-> << >>]

\* the interfaces once the call has let go of the detached ones
Released(ifs) == [i \in Netifs |-> IF ifs[i].attached THEN ifs[i] ELSE Detached]

\* the interfaces attached while a call may be under way
IterRecords ==
    [attached : {TRUE}, poshook : {"None", "other"},
     transport_type : {"Virtual", "raw"}, fails : {"none", "setaddrs"}]

\* one turn of the loop has ended in r
Turned(op, rem, r) ==
    /\ ifaces' = IF r.raised THEN Released(r.ifaces) ELSE r.ifaces
    /\ published' = r.published
    /\ iter' = [iter EXCEPT !.pc = IF r.raised THEN "idle" ELSE @,
                            !.todo = IF r.raised THEN << >> ELSE Tail(rem),
                            !.visited = r.visited,
                            !.calls = r.calls]
    /\ ret' = IF r.raised THEN Outcome(op, TRUE, None)
              ELSE Outcome("turn", FALSE, None)
    /\ UNCHANGED <<model, genloc, external>>

\* one turn of the loop of installnetifs
StepInstall ==
    /\ iter.pc = "install"
    /\ \E rem \in {Remaining(iter, ifaces)} :
          /\ rem # << >>
          /\ Turned("installnetifs", rem, install_one(Running, Head(rem), Env))

\* one turn of the loop of deinstallnetifs
StepDeinstall ==
    /\ iter.pc = "deinstall"
    /\ \E rem \in {Remaining(iter, ifaces)} :
          /\ rem # << >>
          /\ Turned("deinstallnetifs", rem, deinstall_one(Running, Head(rem)))

\* the loop is over and the call returns
FinishCall ==
    /\ iter.pc # "idle"
    /\ Remaining(iter, ifaces) = << >>
    /\ iter' = [iter EXCEPT !.pc = "idle", !.todo = << >>]
    /\ ifaces' = Released(ifaces)
    /\ ret' = Outcome(IF iter.pc = "install" THEN "installnetifs"
                      ELSE "deinstallnetifs", FALSE, None)
    /\ published' = << >>
    /\ UNCHANGED <<model, genloc, external>>

DoAttachNetif ==
    \E i \in Netifs, rec \in IterRecords : AddNetif(i, rec) /\ IfcStep

DoStartInstall == StartCall("install") /\ IfcStep

DoStartDeinstall == StartCall("deinstall") /\ IfcStep

DoStepInstall == StepInstall /\ IfcStep

DoStepDeinstall == StepDeinstall /\ IfcStep

DoFinishCall == FinishCall /\ IfcStep

NextIter ==
    \/ DoAttachNetif
    \/ DoRemoveNetif
    \/ DoSetGenLoc
    \/ DoSetRadio
    \/ DoStartInstall
    \/ DoStartDeinstall
    \/ DoStepInstall
    \/ DoStepDeinstall
    \/ DoFinishCall

SpecIter == Init /\ [][NextIter]_vars

\* C29: installnetifs and deinstallnetifs go through the interfaces that were
\* attached when the loop started: an interface attached or detached while the
\* call runs is neither added to nor taken from the ones the call goes
\* through, and does not make the call fail (a call fails only on an interface
\* of that list, for the lack of a model or a call on the interface that
\* raises).
C29_SnapshotIterated ==
    [][/\ \A k \in 1..Len(iter'.visited) : iter'.visited[k] \in iter'.start
       /\ (iter.pc # "idle" /\ iter'.pc = "idle")
             => /\ ret'.op = IF iter.pc = "install" THEN "installnetifs"
                             ELSE "deinstallnetifs"
                /\ iter'.start = iter.start
                /\ IF ret'.raised
                   THEN \/ model = NoInstance
                        \/ ifaces[iter'.visited[Len(iter'.visited)]].fails
                              # "none"
                   ELSE /\ {iter'.visited[k] : k \in 1..Len(iter'.visited)}
                              = iter.start
                        /\ Len(iter'.visited) = Cardinality(iter.start)]_vars

\* installnetifs returned after going through A alone, which was detached
\* while the call ran, and not through B, which was attached meanwhile
C29_Witness ==
    /\ iter.pc = "idle"
    /\ ret.op = "installnetifs" /\ ~ret.raised
    /\ iter.start = {"A"}
    /\ iter.visited = <<"A">>
    /\ ~ifaces["A"].attached
    /\ ifaces["B"].attached

-----------------------------------------------------------------------------
(* The startup model of a node *)

DoRecordModel ==
    \E n \in NodeIds, m \in ModelNames : \E o \in Overrides(m) :
        MgrCall /\ SetModelConfig(n, m, o)

DoReadModelConfig ==
    \E n \in NodeIds, m \in ModelNames : MgrCall /\ GetModelConfig(n, m)

DoResetConfig ==
    \E given \in BOOLEAN, n \in NodeIds : MgrCall /\ ConfigReset(given, n)

NextStartup ==
    \/ DoRegisterModel
    \/ DoRecordModel
    \/ DoSetModel
    \/ DoReadModelConfig
    \/ DoResetConfig
    \/ DoStoreConfig

SpecStartup == Init /\ [][NextStartup]_vars

\* C30: the startup model recorded for a node is the model name of the last
\* set_model_config or set_model call for the node that succeeded: such a call
\* records its model name for its node and leaves the other nodes' records
\* alone; a call that fails, get_model_config, set_config, config_reset and
\* register leave every record as it was.
C30_StartupModelIsLastSet ==
    [][/\ \A n \in NodeIds, m \in ModelNames : \A o \in Overrides(m) :
            (ret'.op = "set_model_config" /\ SetModelConfig(n, m, o))
            => node_models' = IF ret'.raised THEN node_models
                              ELSE [node_models EXCEPT ![n] = m]
       /\ \A cls \in ModelClasses : \A o \in Overrides(ClassDef(cls).name) :
            (ret'.op = "set_model" /\ SetModel(cls, o))
            => node_models' = IF ret'.raised THEN node_models
                              ELSE [node_models EXCEPT
                                       ![NetId] = ClassDef(cls).name]
       /\ ret'.op \notin {"set_model_config", "set_model"}
            => node_models' = node_models]_vars

\* a set_model_config call failed for a node whose startup model an earlier
\* call recorded, and the record is still there
C30_Witness ==
    /\ ret.op = "set_model_config" /\ ret.raised
    /\ node_models[NetId] = "basic_range"
    /\ node_models[0] = NoModel
    /\ models["mobility"] = NoClass

-----------------------------------------------------------------------------
(* set_model_config run by two threads for one node and two model types,
   statement by statement; set_configs is two statements, the setdefault call
   and the item assignment *)

\* the model type each thread configures
ThreadModel(t) == IF t = 1 THEN "basic_range" ELSE "mobility"

\* (mutation of node_scope: a new mapping is stored for the node every time)
node_scope_fresh(nc, node_id) == DictSet(nc, node_id, << >>)

\* self.node_configurations.setdefault(node_id, OrderedDict())
node_scope(nc, node_id) ==
    IF DictHas(nc, node_id) THEN nc ELSE Append(nc, <<node_id, << >> >>)

\* model_class = self.models.get(model_name); if not model_class: raise
Ty_Check(t) ==
    /\ threads[t].pc = "call"
    /\ threads' = [threads EXCEPT ![t].pc =
                     IF ModelsGet(models, ThreadModel(t)) = NoClass
                     THEN "raised" ELSE "get_configs"]
    /\ UNCHANGED <<node_configurations, heap, node_models>>

\* config = self.get_configs(node_id=node_id, config_type=model_name)
Ty_GetConfigs(t) ==
    /\ threads[t].pc = "get_configs"
    /\ threads' = [threads EXCEPT
                     ![t].pc = "defaults",
                     ![t].model_config =
                        get_configs(node_configurations, ConcNode,
                                    ThreadModel(t))]
    /\ UNCHANGED <<node_configurations, heap, node_models>>

\* if not config: config = model_class.default_values(), to be stored by
\* set_configs; else the loop over the given config starts
Ty_Defaults(t) ==
    /\ threads[t].pc = "defaults"
    /\ IF Falsy(heap, threads[t].model_config)
       THEN \E r \in {Alloc(heap)} :
            /\ heap' = HeapPut(heap, r,
                          default_values(ModelsGet(models, ThreadModel(t))))
            /\ threads' = [threads EXCEPT ![t].pc = "default_scope",
                                          ![t].model_config = r]
       ELSE /\ threads' = [threads EXCEPT ![t].pc = "merge", ![t].key = 1]
            /\ UNCHANGED heap
    /\ UNCHANGED <<node_configurations, node_models>>

\* set_configs, first statement: the node's mapping is fetched, or made
Ty_Scope(t) ==
    /\ threads[t].pc \in {"default_scope", "set_scope"}
    /\ node_configurations' = node_scope(node_configurations, ConcNode)
    /\ threads' = [threads EXCEPT ![t].pc =
                     IF @ = "default_scope" THEN "default_assign"
                     ELSE "set_assign"]
    /\ UNCHANGED <<heap, node_models>>

\* set_configs, second statement: node_configs[config_type] = config
Ty_Assign(t) ==
    /\ threads[t].pc \in {"default_assign", "set_assign"}
    /\ DictHas(node_configurations, ConcNode)
    /\ node_configurations' =
          DictSet(node_configurations, ConcNode,
                  DictSet(DictGet(node_configurations, ConcNode),
                          ThreadModel(t), threads[t].model_config))
    /\ threads' = [threads EXCEPT
                     ![t].pc = IF @ = "default_assign" THEN "merge" ELSE "done",
                     ![t].key = IF threads[t].pc = "default_assign" THEN 1
                                ELSE @]
    /\ UNCHANGED <<heap, node_models>>

\* self.node_models[node_id] = model_name, once the loop is over
Ty_NodeModels(t) ==
    /\ threads[t].pc = "merge"
    /\ threads[t].key > Len(threads[t].config)
    /\ node_models' = [node_models EXCEPT ![ConcNode] = ThreadModel(t)]
    /\ threads' = [threads EXCEPT ![t].pc = "set_scope"]
    /\ UNCHANGED <<node_configurations, heap>>

\* both models are registered
BothRegistered ==
    [m \in ModelNames |->
        IF m = "basic_range" THEN "BasicRangeModel"
        ELSE IF m = "mobility" THEN "MobilityModel" ELSE NoClass]

\* the store the two calls start from: nothing stored for the node, or what
\* an earlier set_model_config for one of the two models left there
StartsTypes ==
    LET empty == [nc |-> << >>, heap |-> << >>,
                  nm |-> [n \in NodeIds |-> NoModel]]
    IN  {empty} \cup
        {LET r == set_model_config(empty, BothRegistered, ConcNode,
                                   ThreadModel(t), << >>)
         IN  [nc |-> r.nc, heap |-> r.heap, nm |-> r.nm] : t \in Threads}

InitTypes ==
    /\ models = BothRegistered
    /\ start \in StartsTypes
    /\ node_configurations = start.nc
    /\ heap = start.heap
    /\ node_models = start.nm
    /\ threads \in {th \in [Threads -> {[pc |-> "call", config |-> c,
                                        model_config |-> None, key |-> None] :
                                          c \in Overrides("basic_range")
                                                \cup Overrides("mobility")}] :
                      \A t \in Threads :
                          th[t].config \in Overrides(ThreadModel(t))}
    /\ ret = Outcome("init", FALSE, None)
    /\ supplied = [p \in Pairs |-> Fresh]
    /\ got = NoGot
    /\ nops = 0
    /\ InitNet

DoTypeCheck == \E t \in Threads : Ty_Check(t) /\ ThreadStep

DoTypeGetConfigs == \E t \in Threads : Ty_GetConfigs(t) /\ ThreadStep

DoTypeDefaults == \E t \in Threads : Ty_Defaults(t) /\ ThreadStep

DoTypeScope == \E t \in Threads : Ty_Scope(t) /\ ThreadStep

DoTypeAssign == \E t \in Threads : Ty_Assign(t) /\ ThreadStep

DoTypeNodeModels == \E t \in Threads : Ty_NodeModels(t) /\ ThreadStep

NextTypes ==
    \/ DoTypeCheck
    \/ DoTypeGetConfigs
    \/ DoTypeDefaults
    \/ DoTypeScope
    \/ DoTypeAssign
    \/ DoMerge
    \/ DoTypeNodeModels

SpecTypes == InitTypes /\ [][NextTypes]_vars

\* what set_model_config for the model of thread t stores for the pair when
\* it runs alone from the store the two calls started from
Alone(t) ==
    LET r == set_model_config(start, models, ConcNode, ThreadModel(t),
                              threads[t].config)
    IN  r.heap[get_configs(r.nc, ConcNode, ThreadModel(t))]

\* C28: two set_model_config calls for one node and two different model
\* types may run concurrently: however their statements interleave, with or
\* without an entry for the node to start from, once both have returned the
\* node has an entry of either type, and the configuration stored for each type
\* is what its call stores when it runs alone.
C28_TypesIndependent ==
    (\A t \in Threads : threads[t].pc = "done")
    => /\ DictHas(node_configurations, ConcNode)
       /\ \A t \in Threads :
             /\ DictHas(DictGet(node_configurations, ConcNode), ThreadModel(t))
             /\ heap[DictGet(DictGet(node_configurations, ConcNode),
                             ThreadModel(t))] = Alone(t)

\* both calls have returned from a store with nothing for the node; the
\* mobility call stored its entry first and the basic_range call wrote the
\* startup model last
C28_Witness ==
    /\ \A t \in Threads : threads[t].pc = "done"
    /\ start.nc = << >>
    /\ threads[1].config = << <<"range", "400">> >>
    /\ threads[2].config = << <<"file", "a">> >>
    /\ DictGet(node_configurations, ConcNode)[1][1] = "mobility"
    /\ DictGet(node_configurations, ConcNode)[2][1] = "basic_range"
    /\ node_models[ConcNode] = "basic_range"

-----------------------------------------------------------------------------
(* Further properties of the manager and its node *)

\* C31: set_model(node, model, overrides) with a model whose name is not
\* registered raises before the node is touched: the radio and the mobility
\* model of the node, the store and the startup models are as before the call.
C31_SetModelInvalidNoChange ==
    [][\A cls \in ModelClasses : \A o \in Overrides(ClassDef(cls).name) :
          (/\ models[ClassDef(cls).name] = NoClass
           /\ ret'.op = "set_model"
           /\ SetModel(cls, o))
          => /\ ret'.raised
             /\ model' = model
             /\ mobility' = mobility
             /\ node_configurations' = node_configurations
             /\ heap' = heap
             /\ node_models' = node_models]_vars

\* set_model failed on a node that has a radio model attached, with a
\* configuration stored for the node
C31_Witness ==
    /\ ret.op = "set_model" /\ ret.raised
    /\ model.cls = "BasicRangeModel"
    /\ mobility = NoInstance
    /\ models["mobility"] = NoClass
    /\ DictHas(node_configurations, NetId)

-----------------------------------------------------------------------------
(* The network node with all its operations *)

\* one more operation of the node; the manager and the threads are left alone
NodeOp ==
    /\ nops < MaxOps
    /\ nops' = nops + 1
    /\ UNCHANGED <<node_configurations, heap, models, node_models, supplied,
                   got, thread_vars>>

\* what the operations on the interfaces leave alone in the node
IfcKeeps ==
    UNCHANGED <<mobility, attaches, listed, nemidmap, service, geo,
                position_alt, moved, dropped, found_netif, entered, nem_pos,
                answer>>

\* the interfaces attached to the node with all its operations
NodeRecords ==
    [attached : {TRUE}, poshook : {"other"},
     transport_type : {"Virtual", "raw"}, fails : {"none"}]

DoNodeSetNemId ==
    \E i \in Netifs, id \in NemIds :
        NodeOp /\ SetNemId(i, id) /\ UNCHANGED <<slot_vars, ifc_vars>>

DoNodeSetService ==
    \E svc \in BOOLEAN :
        NodeOp /\ SetService(svc) /\ UNCHANGED <<slot_vars, ifc_vars>>

DoNodePublishSingle ==
    \E i \in Netifs :
        NodeOp /\ PublishSingle(i) /\ UNCHANGED <<slot_vars, ifc_vars>>

DoNodePublishBatch ==
    \E b \in Batches :
        NodeOp /\ PublishBatch(b) /\ UNCHANGED <<slot_vars, ifc_vars>>

DoNodeAttach ==
    \E cls \in {"RfPipeModel", "MobilityModel"} :
        NodeOp /\ Attach(cls, << >>) /\ UNCHANGED <<net_vars, ifc_vars>>

DoNodeUpdateModel ==
    \E c \in NodeConfigs :
        NodeOp /\ UpdateModel(c) /\ UNCHANGED <<net_vars, ifc_vars>>

DoNodeSetGenLoc == \E b \in BOOLEAN : NodeOp /\ SetGenLoc(b) /\ IfcKeeps

DoNodeAddNetif ==
    \E i \in Netifs, rec \in NodeRecords : NodeOp /\ AddNetif(i, rec) /\ IfcKeeps

DoNodeInstallNetifs == NodeOp /\ InstallNetifs /\ IfcKeeps

DoNodeDeinstallNetifs == NodeOp /\ DeinstallNetifs /\ IfcKeeps

NextNode ==
    \/ DoNodeSetNemId
    \/ DoNodeSetService
    \/ DoNodePublishSingle
    \/ DoNodePublishBatch
    \/ DoNodeAttach
    \/ DoNodeUpdateModel
    \/ DoNodeSetGenLoc
    \/ DoNodeAddNetif
    \/ DoNodeInstallNetifs
    \/ DoNodeDeinstallNetifs

SpecNode == Init /\ [][NextNode]_vars

\* C32: an interface has at most one NEM id at a time, and no operation of
\* the node but setnemid on that interface changes or removes its id: not
\* setmodel, updatemodel, installnetifs, deinstallnetifs, setnemposition,
\* setnempositions, nor setnemid on another interface.
C32_IdStable ==
    [][\A i \in Netifs :
          /\ Cardinality({k \in 1..Len(nemidmap') : nemidmap'[k][1] = i}) <= 1
          /\ getnemid(nemidmap', i) # getnemid(nemidmap, i)
                => /\ ret'.op = "setnemid"
                   /\ \E id \in NemIds : SetNemId(i, id)]_vars

\* deinstallnetifs went through A, whose id is the one B was given too, and
\* both ids are still there
C32_Witness ==
    /\ ret.op = "deinstallnetifs"
    /\ iter.visited = <<"A">>
    /\ getnemid(nemidmap, "A") = 10
    /\ getnemid(nemidmap, "B") = 10

-----------------------------------------------------------------------------
(* _nem_position on its own *)

\* what getgeo returns for the places a node is at, and the altitude the node
\* declares: none, 0, 2.5 and 3.5 (in tenths)
PosPlaces ==
    {[geo |-> [lat |-> 20, lon |-> 10, alt |-> 34], alt |-> << >>],
     [geo |-> [lat |-> 40, lon |-> 30, alt |-> 126], alt |-> <<0>>],
     [geo |-> [lat |-> 40, lon |-> 30, alt |-> 126], alt |-> <<25>>],
     [geo |-> [lat |-> 60, lon |-> 50, alt |-> 7], alt |-> <<35>>]}

\* _nem_position
ComputePosition(netif) ==
    /\ nem_pos' = nem_position(nemidmap, geo, position_alt, netif)
    /\ ret' = Outcome("_nem_position", FALSE, None)
    /\ published' = << >>
    /\ moved' = <<netif>>
    /\ UNCHANGED <<nemidmap, service, geo, position_alt, dropped>>

\* what the calls on positions leave alone
PosStep ==
    UNCHANGED <<mgr_vars, thread_vars, slot_vars, found_netif, entered,
                ifaces, genloc, external, iter, answer>>

DoPosSetNemId ==
    \E i \in Netifs, id \in NemIds :
        SetNemId(i, id) /\ PosStep /\ UNCHANGED nem_pos

DoPosMove ==
    \E i \in Netifs, place \in PosPlaces :
        Move(i, place) /\ PosStep /\ UNCHANGED nem_pos

DoComputePosition == \E i \in Netifs : ComputePosition(i) /\ PosStep

NextPos ==
    \/ DoPosSetNemId
    \/ DoPosMove
    \/ DoComputePosition

SpecPos == Init /\ [][NextPos]_vars

\* C33: _nem_position of an interface with a NEM id returns (id, longitude,
\* latitude, altitude): the longitude and the latitude that getgeo gives for
\* the position of the node, each in its place, and as altitude the one the
\* node declares whenever it declares one, 0 included, else the one getgeo
\* gives, rounded to a whole number.
C33_PositionTuple ==
    [][\A i \in Netifs :
          (/\ ret'.op = "_nem_position"
           /\ moved' = <<i>>
           /\ getnemid(nemidmap, i) # NoNemId
           /\ ComputePosition(i))
          => LET source == IF position_alt[i] # << >> THEN position_alt[i][1]
                           ELSE geo[i].alt
             IN  /\ Len(nem_pos') = 4
                 /\ nem_pos'[1] = getnemid(nemidmap, i)
                 /\ nem_pos'[2] = geo[i].lon
                 /\ nem_pos'[3] = geo[i].lat
                 /\ nem_pos'[4] % 10 = 0
                 /\ nem_pos'[4] - source <= 5
                 /\ source - nem_pos'[4] <= 5
                 /\ position_alt[i] = <<0>> => nem_pos'[4] = 0]_vars

\* the node declares the altitude 0 where getgeo gives 12.6
C33_Witness ==
    /\ ret.op = "_nem_position"
    /\ moved = <<"B">>
    /\ position_alt["B"] = <<0>>
    /\ geo["B"].alt = 126
    /\ nem_pos = <<11, 30, 40, 0>>

-----------------------------------------------------------------------------
(* The manager and a caller that keeps the mappings it is handed *)

\* the caller sets a key of the mapping that get_model_config has just
\* returned to it; no method of the manager is called
CallerWrites(key, value) ==
    /\ ret.op = "get_model_config"
    /\ ~ret.raised
    /\ ret.value # None
    /\ heap' = [heap EXCEPT ![ret.value] = DictSet(@, key, value)]
    /\ ret' = Outcome("caller", FALSE, None)
    /\ UNCHANGED <<node_configurations, models, node_models>>

DoCallerWrites ==
    Call /\ CallerWrites("range", "1") /\ UNCHANGED <<supplied, got>>

NextOwn ==
    \/ DoRegister
    \/ DoSetModelConfig
    \/ DoGetModelConfig
    \/ DoSetConfig
    \/ DoSetConfigsOf
    \/ DoCallerWrites

SpecOwn == Init /\ [][NextOwn]_vars

\* C34: the store owns what is stored: a caller that changes a mapping it
\* was handed by get_model_config changes nothing of what is stored for any
\* (scope, type), and set_config for one (scope, type) leaves what is stored for
\* every other (scope, type) as it was, also when both were stored from one
\* mapping.
C34_StoreOwnsValues ==
    [][/\ ret'.op = "caller"
            => \A p \in AllPairs :
                  SameAt(node_configurations', heap',
                         node_configurations, heap, p)
       /\ \A n \in NodeIds, m \in ClassNames :
            (ret'.op = "set_config" /\ SetConfig("range", "400", n, m))
            => \A p \in AllPairs \ {<<n, m>>} :
                  SameAt(node_configurations', heap',
                         node_configurations, heap, p)]_vars

-----------------------------------------------------------------------------
(* The store and its reads *)

\* the scopes read and written: the default scope and the two nodes
ReadScopes == NodeIds \cup {default_node}
ReadTypes == {"basic_range", default_type}
ReadKeys == {"range", "file"}
\* the default handed to get_config: None, or a string
Defaults == {"None", "fallback"}

\* what a read leaves alone: the manager, and everything of the node but the
\* answer
ReadStep ==
    /\ nops < MaxOps
    /\ nops' = nops + 1
    /\ UNCHANGED <<node_configurations, heap, models, node_models, supplied,
                   got, net_vars, thread_vars, slot_vars, found_netif, entered,
                   ifaces, genloc, external, iter, nem_pos>>

ReadConfig(_id, node_id, config_type, default) ==
    /\ answer' = [answer EXCEPT !.text =
                     get_config(node_configurations, heap, _id, node_id,
                                config_type, default)]
    /\ ret' = Outcome("get_config", FALSE, None)

ReadConfigs(node_id, config_type) ==
    \E config \in {get_configs(node_configurations, node_id, config_type)} :
    /\ answer' = [answer EXCEPT !.list =
                     IF config = None THEN << >> ELSE <<heap[config]>>]
    /\ ret' = Outcome("get_configs", FALSE, None)

ReadAllConfigs(node_id) ==
    /\ answer' = [answer EXCEPT !.list =
                     get_all_configs(node_configurations, heap, node_id)]
    /\ ret' = Outcome("get_all_configs", FALSE, None)

ReadNodes ==
    /\ answer' = [answer EXCEPT !.list = nodes(node_configurations)]
    /\ ret' = Outcome("nodes", FALSE, None)

DoReadConfig ==
    \E k \in ReadKeys, n \in ReadScopes, t \in ReadTypes, d \in Defaults :
        ReadStep /\ ReadConfig(k, n, t, d)

DoReadConfigs ==
    \E n \in ReadScopes, t \in ReadTypes : ReadStep /\ ReadConfigs(n, t)

DoReadAllConfigs == \E n \in ReadScopes : ReadStep /\ ReadAllConfigs(n)

DoReadNodes == ReadStep /\ ReadNodes

DoWriteConfig ==
    \E n \in ReadScopes, t \in ReadTypes :
        Call /\ SetConfig("range", "400", n, t) /\ UNCHANGED <<supplied, got>>

DoWriteConfigs ==
    \E n \in ReadScopes :
        /\ Call
        /\ SetConfigs(<< >>, n, "basic_range")
        /\ UNCHANGED <<supplied, got>>

DoWriteModelConfig ==
    \E n \in NodeIds :
        /\ Call
        /\ SetModelConfig(n, "basic_range", << >>)
        /\ UNCHANGED <<supplied, got>>

DoFetchModelConfig ==
    \E n \in NodeIds :
        /\ Call
        /\ GetModelConfig(n, "basic_range")
        /\ UNCHANGED <<supplied, got>>

DoRegisterRange ==
    Call /\ Register("BasicRangeModel") /\ UNCHANGED <<supplied, got>>

NextRead ==
    \/ DoRegisterRange
    \/ DoWriteConfig
    \/ DoWriteConfigs
    \/ DoWriteModelConfig
    \/ DoFetchModelConfig
    \/ DoReadConfig
    \/ DoReadConfigs
    \/ DoReadAllConfigs
    \/ DoReadNodes

SpecRead == Init /\ [][NextRead]_vars

ReadOps == {"get_config", "get_configs", "get_all_configs", "nodes"}

\* a write addressed to the scope: set_config, set_configs, set_model_config
\* or get_model_config
WriteTo(n) ==
    \/ \E t \in ReadTypes : SetConfig("range", "400", n, t)
    \/ SetConfigs(<< >>, n, "basic_range")
    \/ SetModelConfig(n, "basic_range", << >>)
    \/ GetModelConfig(n, "basic_range")

\* C35: the reads get_config, get_configs, get_all_configs and nodes leave the
\* store as it is for every argument, also for a scope or type never written;
\* a scope gets an entry only in a set_config, set_configs, set_model_config
\* or get_model_config addressed to it; get_config returns the default it was
\* handed, and does not raise, when the scope, the type or the key is absent;
\* nodes() lists the scopes that have an entry, the default scope left out.
C35_ReadsCreateNothing ==
    [][/\ ret'.op \in ReadOps
            => /\ ~ret'.raised
               /\ UNCHANGED <<node_configurations, heap, node_models, models>>
       /\ \A n \in ReadScopes :
            (DictHas(node_configurations', n) /\ ~DictHas(node_configurations, n))
            => /\ ret'.op \in {"set_config", "set_configs", "set_model_config",
                               "get_model_config"}
               /\ WriteTo(n)
       /\ \A k \in ReadKeys, n \in ReadScopes, t \in ReadTypes, d \in Defaults :
            (/\ ret'.op = "get_config"
             /\ ReadConfig(k, n, t, d)
             /\ \/ ~Present(node_configurations, n, t)
                \/ ~DictHas(StoredAt(node_configurations, heap, n, t), k))
            => answer'.text = d
       /\ (ret'.op = "nodes" /\ ReadNodes)
            => /\ \A i \in 1..Len(answer'.list) :
                     answer'.list[i] # default_node
               /\ {answer'.list[i] : i \in 1..Len(answer'.list)} =
                     KeySet(node_configurations) \ {default_node}]_vars

\* the default scope and node 1 have entries, node 0 has none; a get_config
\* has returned the default and nodes() has listed node 1 alone
C35_Witness ==
    /\ ret.op = "nodes"
    /\ KeySet(node_configurations) = {default_node, 1}
    /\ answer.list = <<1>>
    /\ answer.text = "fallback"

-----------------------------------------------------------------------------
(* The startup-model record against the store *)

\* C36: in every state of the model manager, each node with a recorded
\* startup model has a stored configuration for (node, that model name),
\* whatever set_model_config, get_model_config, set_configs and config_reset
\* calls were made.
C36_StartupModelStored ==
    \A n \in NodeIds :
        node_models[n] # NoModel
        => Present(node_configurations, n, node_models[n])
====
